---- MODULE Spec2Model ----
(***************************************************************************)
(* A model of src/etapai.py: the path check, the file helpers, the patch   *)
(* engine (apply_diff_edit), the conversation log with its trimming, the   *)
(* tool dispatcher and the request/stream/act/continue loop.               *)
(*                                                                         *)
(* Text is a sequence of one-character strings.  A path string is a record *)
(* [abs, parts]: whether it starts with "/", and its "/"-separated         *)
(* components.  A canonical path is the sequence of components below the   *)
(* root.  The file system holds no symbolic links, and every directory a   *)
(* modelled path names exists.                                             *)
(***************************************************************************)
EXTENDS Integers, Sequences, FiniteSets, TLC

VARIABLES
    fs,                   \* the files: canonical path -> text
    conversation_history, \* the global list of turns
    pc,                   \* where the session is: "prompt", "executing", "follow_up", "ended"
    batch,                \* formatted_tool_calls of the round being executed
    cursor,               \* index in batch of the next tool call to execute
    n_inputs,             \* user turns sent to the model so far
    n_adds,               \* /add commands so far
    n_failures,           \* failed model requests so far
    n_calls,              \* tool calls requested so far
    last                  \* what the last call did: its arguments, result and file accesses

vars == <<fs, conversation_history, pc, batch, cursor, n_inputs, n_adds, n_failures, n_calls, last>>

(***************************************************************************)
(* Bounds of the model.                                                    *)
(***************************************************************************)
MaxInputs == 2       \* user turns of a session (Spec)
MaxCalls == 2        \* tool calls of a session (Spec)
MaxAdds == 2         \* /add commands of a session (Spec)
MaxFailures == 1     \* failed model requests of a session
LongInputs == 6      \* user turns of a long session (SpecTrim)
LongAdds == 1        \* /add commands of a long session (SpecTrim, SpecTools, SpecMain)
ToolInputs == 1      \* user turns of a session of tool calls (SpecTools, SpecMain)
PreambleInputs == 5  \* user turns of a session that reaches one trim (SpecPreamble)
MaxPathLen == 3      \* components of a path string (path-check specification)
MaxLen == 3          \* characters of a file's text (patch specification)
MaxSnippet == 2      \* characters of an original snippet (patch specification)
MaxNew == 1          \* characters of a new snippet (patch specification)
BlockLen == 2500000  \* the character "B" stands for a run of this many filler characters

(***************************************************************************)
(* Python values.                                                          *)
(***************************************************************************)
Ok(v) == [exc |-> "none", val |-> v]
Raise(e) == [exc |-> e]
Raised(r) == r.exc # "none"

Range(s) == {s[i] : i \in 1..Len(s)}

RECURSIVE SeqsUpTo(_, _)
SeqsUpTo(S, n) ==
    IF n = 0 THEN {<<>>}
    ELSE LET shorter == SeqsUpTo(S, n - 1)
         IN shorter \cup {Append(s, x) : s \in {t \in shorter : Len(t) = n - 1}, x \in S}

(***************************************************************************)
(* Paths: pathlib.Path(path_str), Path.parts, Path.resolve().              *)
(***************************************************************************)
Cwd == <<"w">>   \* the working directory, /w

Components == {"a", "d", "..", ".", "~", "~u"}
TildeComponents == {"~", "~u"}

PathStrings ==
    {[abs |-> b, parts |-> p] : b \in BOOLEAN, p \in SeqsUpTo(Components, MaxPathLen) \ {<<>>}}

\* str.startswith('~') of one path component
StartsWithTilde(part) == part \in TildeComponents

RECURSIVE DropDots(_)
DropDots(parts) ==
    IF parts = <<>> THEN <<>>
    ELSE IF Head(parts) = "." THEN DropDots(Tail(parts))
    ELSE <<Head(parts)>> \o DropDots(Tail(parts))

\* Path(path_str).parts without the anchor: pathlib drops "." components and keeps ".."
PathParts(path_str) == DropDots(path_str.parts)

RECURSIVE Collapse(_, _)
Collapse(stack, parts) ==
    IF parts = <<>> THEN stack
    ELSE IF Head(parts) = ".."
         THEN Collapse(IF stack = <<>> THEN <<>> ELSE SubSeq(stack, 1, Len(stack) - 1),
                       Tail(parts))
         ELSE Collapse(Append(stack, Head(parts)), Tail(parts))

\* Path(path_str).resolve(): absolute, ".." folded into its parent (the root is its own parent)
Resolve(path_str) ==
    Collapse(IF path_str.abs THEN <<>> ELSE Cwd, PathParts(path_str))

normalize_path(path_str) ==
    LET path == Resolve(path_str)
    IN IF ".." \in Range(path)
       THEN Raise("ValueError")
       ELSE Ok(path)

\* str(path) of a resolved path: an absolute path string
AsPathString(path) == [abs |-> TRUE, parts |-> path]

(***************************************************************************)
(* Text: len(), str.count(), str.replace(.., .., 1).                       *)
(***************************************************************************)
Chars == {"x", "y", "B"}

Texts(n) == SeqsUpTo(Chars, n)

CharLen(c) == IF c = "B" THEN BlockLen ELSE 1

RECURSIVE PyLen(_)
PyLen(text) == IF text = <<>> THEN 0 ELSE CharLen(Head(text)) + PyLen(Tail(text))

MatchesAt(text, sub, i) ==
    /\ i >= 1
    /\ i + Len(sub) - 1 <= Len(text)
    /\ SubSeq(text, i, i + Len(sub) - 1) = sub

\* str.find(sub, i): the first index >= i where sub occurs, 0 when there is none
RECURSIVE Find(_, _, _)
Find(text, sub, i) ==
    IF i + Len(sub) - 1 > Len(text) THEN 0
    ELSE IF MatchesAt(text, sub, i) THEN i
    ELSE Find(text, sub, i + 1)

RECURSIVE CountFrom(_, _, _)
CountFrom(text, sub, i) ==
    LET j == Find(text, sub, i)
    IN IF j = 0 THEN 0 ELSE 1 + CountFrom(text, sub, j + Len(sub))

\* str.count(sub): non-overlapping occurrences, left to right; len + 1 for the empty string
PyCount(text, sub) ==
    IF sub = <<>> THEN Len(text) + 1 ELSE CountFrom(text, sub, 1)

ReplaceKeepingTail(text, old, new) ==
    LET j == Find(text, old, 1)
    IN IF j = 0 THEN text
       ELSE SubSeq(text, 1, j - 1) \o new \o SubSeq(text, j + 1, Len(text))

\* str.replace(old, new, 1): the first occurrence only
PyReplaceFirst(text, old, new) ==
    LET j == Find(text, old, 1)
    IN IF j = 0 THEN text
       ELSE SubSeq(text, 1, j - 1) \o new \o SubSeq(text, j + Len(old), Len(text))

(***************************************************************************)
(* Files.  A file is a sequence of characters; "#" is a byte sequence that *)
(* is not valid UTF-8 and "0" is a NUL byte.  An operation on the file     *)
(* system returns [exc, ...] with the new file system and the accesses it  *)
(* made, in order.                                                         *)
(***************************************************************************)
MaxFileSize == 5000000

Exists(files, path_str) == Resolve(path_str) \in DOMAIN files

WriteFile(files, path, text) ==
    [q \in DOMAIN files \cup {path} |-> IF q = path THEN text ELSE files[q]]

read_local_file(files, path_str) ==
    IF ~Exists(files, path_str) THEN Raise("FileNotFoundError")
    ELSE IF "#" \in Range(files[Resolve(path_str)]) THEN Raise("UnicodeDecodeError")
    ELSE Ok(files[Resolve(path_str)])

ReadAccess(path_str) == [op |-> "read", file |-> Resolve(path_str)]
WriteAccess(path_str) == [op |-> "write", file |-> Resolve(path_str)]

create_file_write_first(files, path, content) ==
    IF \E i \in 1..Len(PathParts(path)) : StartsWithTilde(PathParts(path)[i])
    THEN [exc |-> "ValueError", msg |-> "home", fs |-> files, io |-> <<>>]
    ELSE IF Raised(normalize_path(path))
    THEN [exc |-> "ValueError", msg |-> "parent", fs |-> files, io |-> <<>>]
    ELSE IF PyLen(content) > MaxFileSize
    THEN [exc |-> "ValueError", msg |-> "size",
          fs |-> WriteFile(files, Resolve(path), content), io |-> <<WriteAccess(path)>>]
    ELSE [exc |-> "none", msg |-> "", fs |-> WriteFile(files, Resolve(path), content),
          io |-> <<WriteAccess(path)>>]

create_file(files, path, content) ==
    IF \E i \in 1..Len(PathParts(path)) : StartsWithTilde(PathParts(path)[i])
    THEN [exc |-> "ValueError", msg |-> "home", fs |-> files, io |-> <<>>]
    ELSE IF Raised(normalize_path(path))
    THEN [exc |-> "ValueError", msg |-> "parent", fs |-> files, io |-> <<>>]
    ELSE IF PyLen(content) > MaxFileSize
    THEN [exc |-> "ValueError", msg |-> "size", fs |-> files, io |-> <<>>]
    ELSE [exc |-> "none", msg |-> "", fs |-> WriteFile(files, Resolve(path), content),
          io |-> <<WriteAccess(path)>>]

(***************************************************************************)
(* The patch engine.  The result's "caught" names the exception the        *)
(* function caught and printed ("none" when the edit was applied), "exc"   *)
(* the exception that left the function.                                   *)
(***************************************************************************)
apply_diff_edit_any_match(files, path, original_snippet, new_snippet) ==
    LET content == read_local_file(files, path)
        occurrences == PyCount(content.val, original_snippet)
        created == create_file(files, path,
                               PyReplaceFirst(content.val, original_snippet, new_snippet))
    IN IF content.exc = "FileNotFoundError"
       THEN [exc |-> "none", caught |-> "FileNotFoundError", msg |-> "", fs |-> files, io |-> <<>>]
       ELSE IF content.exc = "UnicodeDecodeError"
       THEN [exc |-> "UnboundLocalError", caught |-> "ValueError", msg |-> "decode",
             fs |-> files, io |-> <<ReadAccess(path)>>]
       ELSE IF occurrences = 0
       THEN [exc |-> "none", caught |-> "ValueError", msg |-> "not found",
             fs |-> files, io |-> <<ReadAccess(path)>>]
       ELSE [exc |-> "none", caught |-> created.exc, msg |-> created.msg,
             fs |-> created.fs, io |-> <<ReadAccess(path)>> \o created.io]

apply_diff_edit(files, path, original_snippet, new_snippet) ==
    LET content == read_local_file(files, path)
        occurrences == PyCount(content.val, original_snippet)
        created == create_file(files, path,
                               PyReplaceFirst(content.val, original_snippet, new_snippet))
    IN IF content.exc = "FileNotFoundError"
       THEN [exc |-> "none", caught |-> "FileNotFoundError", msg |-> "", fs |-> files, io |-> <<>>]
       ELSE IF content.exc = "UnicodeDecodeError"
       THEN \* caught as a ValueError; the handler then prints the unbound 'content'
            [exc |-> "UnboundLocalError", caught |-> "ValueError", msg |-> "decode",
             fs |-> files, io |-> <<ReadAccess(path)>>]
       ELSE IF occurrences = 0
       THEN [exc |-> "none", caught |-> "ValueError", msg |-> "not found",
             fs |-> files, io |-> <<ReadAccess(path)>>]
       ELSE IF occurrences > 1
       THEN [exc |-> "none", caught |-> "ValueError", msg |-> "ambiguous",
             fs |-> files, io |-> <<ReadAccess(path)>>]
       ELSE [exc |-> "none", caught |-> created.exc, msg |-> created.msg,
             fs |-> created.fs, io |-> <<ReadAccess(path)>> \o created.io]


(***************************************************************************)
(* Message contents.  A text the program builds is a record whose "kind"   *)
(* names the f-string that builds it; the fields are the values it embeds. *)
(***************************************************************************)
None == [kind |-> "None"]

\* any other text: what the user types, what the model answers
PlainText(text) == [kind |-> "text", text |-> text]

\* f"Content of file '{normalized_path}':\n\n{content}"
FileContent(normalized_path, content) ==
    [kind |-> "file", file |-> normalized_path, text |-> content]

\* file_marker in msg["content"], for file_marker = f"Content of file '{normalized_path}'"
ContainsMarker(content, normalized_path) ==
    \/ content.kind = "file" /\ content.file = normalized_path
    \/ /\ content.kind = "multi"
       /\ \E i \in 1..Len(content.results) :
              /\ content.results[i].kind = "file"
              /\ content.results[i].file = normalized_path

SystemTurn(content) == [role |-> "system", content |-> content]
UserTurn(content) == [role |-> "user", content |-> content]
ToolTurn(tool_call_id, content) ==
    [role |-> "tool", tool_call_id |-> tool_call_id, content |-> content]

\* the indices of the messages that any(...) looks at before it stops
MarkerAt(history, normalized_path) ==
    {i \in 1..Len(history) :
        /\ history[i].content.kind # "None"
        /\ ContainsMarker(history[i].content, normalized_path)}
NoneAt(history) == {i \in 1..Len(history) : history[i].content.kind = "None"}

ensure_file_in_context(files, history, file_path) ==
    LET normalized == normalize_path(file_path)
        content == read_local_file(files, AsPathString(normalized.val))
        marked == MarkerAt(history, normalized.val)
        none == NoneAt(history)
        io == <<ReadAccess(AsPathString(normalized.val))>>
    IN IF Raised(normalized)
       THEN [exc |-> "ValueError", ret |-> FALSE, history |-> history, io |-> <<>>]
       ELSE IF content.exc = "FileNotFoundError"
       THEN \* an OSError: caught, reported, False
            [exc |-> "none", ret |-> FALSE, history |-> history, io |-> <<>>]
       ELSE IF Raised(content)
       THEN \* UnicodeDecodeError is no OSError
            [exc |-> content.exc, ret |-> FALSE, history |-> history, io |-> io]
       ELSE IF \E i \in marked : \A j \in none : i < j
       THEN [exc |-> "none", ret |-> TRUE, history |-> history, io |-> io]
       ELSE IF none # {}
       THEN \* 'in' on a message whose content is None
            [exc |-> "TypeError", ret |-> FALSE, history |-> history, io |-> io]
       ELSE [exc |-> "none", ret |-> TRUE,
             history |-> Append(history, SystemTurn(FileContent(normalized.val, content.val))),
             io |-> io]

(***************************************************************************)
(* Tool calls.  A function name is a sequence of pieces, so that the       *)
(* fragments of a stream concatenate to it.  An argument text is a         *)
(* sequence of tokens: "{", "}", one "key": value member, or junk.         *)
(***************************************************************************)
READ_FILE == <<"read_", "file">>
READ_MULTIPLE_FILES == <<"read_", "multiple_", "files">>
CREATE_FILE == <<"create_", "file">>
CREATE_MULTIPLE_FILES == <<"create_", "multiple_", "files">>
EDIT_FILE == <<"edit_", "file">>

Open == [t |-> "open", k |-> "", v |-> <<>>]
Close == [t |-> "close", k |-> "", v |-> <<>>]
Junk == [t |-> "junk", k |-> "", v |-> <<>>]
Member(key, value) == [t |-> "member", k |-> key, v |-> value]

\* json.loads(text): the members of the object, or JSONDecodeError
JsonLoads(text) ==
    IF /\ Len(text) >= 2
       /\ text[1].t = "open"
       /\ text[Len(text)].t = "close"
       /\ \A i \in 2..(Len(text) - 1) : text[i].t = "member"
    THEN Ok(SubSeq(text, 2, Len(text) - 1))
    ELSE Raise("JSONDecodeError")

HasKey(arguments, key) == \E i \in 1..Len(arguments) : arguments[i].k = key

\* arguments[key]; of two members with one key, json.loads keeps the last
Get(arguments, key) ==
    arguments[CHOOSE i \in 1..Len(arguments) :
                  /\ arguments[i].k = key
                  /\ \A j \in (i + 1)..Len(arguments) : arguments[j].k # key].v

(***************************************************************************)
(* The dispatcher.  Its result: the text it returns, the file system and   *)
(* the conversation it leaves, its file accesses, and what the patch       *)
(* engine printed when it was called.                                      *)
(***************************************************************************)
NoPatch == [invoked |-> FALSE, caught |-> "none", msg |-> ""]

\* f"Error executing {function_name}: {str(e)}"
ErrorText(function_name, exc, msg) ==
    [kind |-> "error", name |-> function_name, exc |-> exc, msg |-> msg]

Dispatched(result, files, history, io, patch) ==
    [result |-> result, fs |-> files, history |-> history, io |-> io, patch |-> patch]

\* the loop of read_multiple_files from the i-th path on
RECURSIVE ReadEach(_, _, _, _, _)
ReadEach(files, file_paths, i, results, io) ==
    IF i > Len(file_paths) THEN [exc |-> "none", results |-> results, io |-> io]
    ELSE LET normalized == normalize_path(file_paths[i])
             content == read_local_file(files, AsPathString(normalized.val))
         IN IF Raised(normalized) THEN [exc |-> "ValueError", results |-> results, io |-> io]
            ELSE IF content.exc = "FileNotFoundError"
            THEN ReadEach(files, file_paths, i + 1,
                          Append(results, [kind |-> "read_error", path_str |-> file_paths[i],
                                           exc |-> "FileNotFoundError"]),
                          io)
            ELSE IF Raised(content)
            THEN [exc |-> content.exc, results |-> results,
                  io |-> Append(io, ReadAccess(AsPathString(normalized.val)))]
            ELSE ReadEach(files, file_paths, i + 1,
                          Append(results, FileContent(normalized.val, content.val)),
                          Append(io, ReadAccess(AsPathString(normalized.val))))

\* a loop of create_multiple_files that deletes the files it created when one fails
RECURSIVE CreateEachRollingBack(_, _, _, _, _)
CreateEachRollingBack(files, infos, i, created_files, io) ==
    IF i > Len(infos)
    THEN [exc |-> "none", msg |-> "", fs |-> files, created_files |-> created_files, io |-> io]
    ELSE LET created == create_file(files, infos[i].path, infos[i].content)
             made == {Resolve(created_files[j]) : j \in 1..Len(created_files)}
         IN IF Raised(created)
            THEN [exc |-> created.exc, msg |-> created.msg,
                  fs |-> [q \in (DOMAIN files) \ made |-> files[q]],
                  created_files |-> created_files, io |-> io \o created.io]
            ELSE CreateEachRollingBack(created.fs, infos, i + 1,
                                       Append(created_files, infos[i].path), io \o created.io)

\* the loop of create_multiple_files from the i-th file on
RECURSIVE CreateEach(_, _, _, _, _)
CreateEach(files, infos, i, created_files, io) ==
    IF i > Len(infos)
    THEN [exc |-> "none", msg |-> "", fs |-> files, created_files |-> created_files, io |-> io]
    ELSE LET created == create_file(files, infos[i].path, infos[i].content)
         IN IF Raised(created)
            THEN [exc |-> created.exc, msg |-> created.msg, fs |-> created.fs,
                  created_files |-> created_files, io |-> io \o created.io]
            ELSE CreateEach(created.fs, infos, i + 1,
                            Append(created_files, infos[i].path), io \o created.io)

FirstMissing(arguments, keys) ==
    CHOOSE i \in 1..Len(keys) :
        /\ ~HasKey(arguments, keys[i])
        /\ \A j \in 1..(i - 1) : HasKey(arguments, keys[j])

HasAll(arguments, keys) == \A i \in 1..Len(keys) : HasKey(arguments, keys[i])

KeyErrorText(function_name, arguments, keys) ==
    ErrorText(function_name, "KeyError", keys[FirstMissing(arguments, keys)])

\* a read_file that returns the bare content of the file
DoReadFileBare(files, history, function_name, arguments) ==
    LET normalized == normalize_path(Get(arguments, "file_path"))
        content == read_local_file(files, AsPathString(normalized.val))
    IN IF ~HasKey(arguments, "file_path")
       THEN Dispatched(KeyErrorText(function_name, arguments, <<"file_path">>),
                       files, history, <<>>, NoPatch)
       ELSE IF Raised(normalized) \/ Raised(content)
       THEN Dispatched(ErrorText(function_name, "OSError", ""), files, history, <<>>, NoPatch)
       ELSE Dispatched(PlainText(content.val), files, history,
                       <<ReadAccess(AsPathString(normalized.val))>>, NoPatch)

DoReadFile(files, history, function_name, arguments) ==
    LET normalized == normalize_path(Get(arguments, "file_path"))
        content == read_local_file(files, AsPathString(normalized.val))
    IN IF ~HasKey(arguments, "file_path")
       THEN Dispatched(KeyErrorText(function_name, arguments, <<"file_path">>),
                       files, history, <<>>, NoPatch)
       ELSE IF Raised(normalized)
       THEN Dispatched(ErrorText(function_name, "ValueError", "parent"),
                       files, history, <<>>, NoPatch)
       ELSE IF content.exc = "FileNotFoundError"
       THEN Dispatched(ErrorText(function_name, content.exc, ""), files, history, <<>>, NoPatch)
       ELSE IF Raised(content)
       THEN Dispatched(ErrorText(function_name, content.exc, ""), files, history,
                       <<ReadAccess(AsPathString(normalized.val))>>, NoPatch)
       ELSE Dispatched(FileContent(normalized.val, content.val), files, history,
                       <<ReadAccess(AsPathString(normalized.val))>>, NoPatch)

DoReadMultipleFiles(files, history, function_name, arguments) ==
    LET read == ReadEach(files, Get(arguments, "file_paths"), 1, <<>>, <<>>)
    IN IF ~HasKey(arguments, "file_paths")
       THEN Dispatched(KeyErrorText(function_name, arguments, <<"file_paths">>),
                       files, history, <<>>, NoPatch)
       ELSE IF Raised(read)
       THEN Dispatched(ErrorText(function_name, read.exc, ""), files, history, read.io, NoPatch)
       ELSE Dispatched([kind |-> "multi", results |-> read.results],
                       files, history, read.io, NoPatch)

DoCreateFile(files, history, function_name, arguments) ==
    LET keys == <<"file_path", "content">>
        created == create_file(files, Get(arguments, "file_path"), Get(arguments, "content"))
    IN IF ~HasAll(arguments, keys)
       THEN Dispatched(KeyErrorText(function_name, arguments, keys), files, history, <<>>, NoPatch)
       ELSE IF Raised(created)
       THEN Dispatched(ErrorText(function_name, created.exc, created.msg),
                       created.fs, history, created.io, NoPatch)
       ELSE Dispatched([kind |-> "created", path_str |-> Get(arguments, "file_path")],
                       created.fs, history, created.io, NoPatch)

DoCreateMultipleFiles(files, history, function_name, arguments) ==
    LET made == CreateEach(files, Get(arguments, "files"), 1, <<>>, <<>>)
    IN IF ~HasKey(arguments, "files")
       THEN Dispatched(KeyErrorText(function_name, arguments, <<"files">>),
                       files, history, <<>>, NoPatch)
       ELSE IF Raised(made)
       THEN Dispatched(ErrorText(function_name, made.exc, made.msg),
                       made.fs, history, made.io, NoPatch)
       ELSE Dispatched([kind |-> "created_many", paths |-> made.created_files],
                       made.fs, history, made.io, NoPatch)

DoEditFile(files, history, function_name, arguments) ==
    LET keys == <<"file_path", "original_snippet", "new_snippet">>
        file_path == Get(arguments, "file_path")
        ensured == ensure_file_in_context(files, history, file_path)
        edit == apply_diff_edit(files, file_path, Get(arguments, "original_snippet"),
                                Get(arguments, "new_snippet"))
        patch == [invoked |-> TRUE, caught |-> edit.caught, msg |-> edit.msg]
    IN IF ~HasAll(arguments, keys)
       THEN Dispatched(KeyErrorText(function_name, arguments, keys), files, history, <<>>, NoPatch)
       ELSE IF Raised(ensured)
       THEN Dispatched(ErrorText(function_name, ensured.exc, ""),
                       files, ensured.history, ensured.io, NoPatch)
       ELSE IF ~ensured.ret
       THEN Dispatched([kind |-> "edit_unreadable", path_str |-> file_path],
                       files, ensured.history, ensured.io, NoPatch)
       ELSE IF Raised(edit)
       THEN Dispatched(ErrorText(function_name, edit.exc, edit.msg),
                       edit.fs, ensured.history, ensured.io \o edit.io, patch)
       ELSE \* apply_diff_edit returns nothing: whatever it caught, the edit is reported done
            Dispatched([kind |-> "edited", path_str |-> file_path],
                       edit.fs, ensured.history, ensured.io \o edit.io, patch)

\* a dispatcher that takes a function it does not know for read_file
execute_function_call_dict_reading(files, history, tool_call_dict) ==
    LET function_name == tool_call_dict.function.name
        arguments == JsonLoads(tool_call_dict.function.arguments)
    IN IF Raised(arguments)
       THEN Dispatched(ErrorText(function_name, arguments.exc, ""), files, history, <<>>, NoPatch)
       ELSE IF function_name = READ_MULTIPLE_FILES
       THEN DoReadMultipleFiles(files, history, function_name, arguments.val)
       ELSE IF function_name = CREATE_FILE
       THEN DoCreateFile(files, history, function_name, arguments.val)
       ELSE IF function_name = CREATE_MULTIPLE_FILES
       THEN DoCreateMultipleFiles(files, history, function_name, arguments.val)
       ELSE IF function_name = EDIT_FILE
       THEN DoEditFile(files, history, function_name, arguments.val)
       ELSE DoReadFile(files, history, function_name, arguments.val)

execute_function_call_dict(files, history, tool_call_dict) ==
    LET function_name == tool_call_dict.function.name
        arguments == JsonLoads(tool_call_dict.function.arguments)
    IN IF Raised(arguments)
       THEN Dispatched(ErrorText(function_name, arguments.exc, ""), files, history, <<>>, NoPatch)
       ELSE IF function_name = READ_FILE
       THEN DoReadFile(files, history, function_name, arguments.val)
       ELSE IF function_name = READ_MULTIPLE_FILES
       THEN DoReadMultipleFiles(files, history, function_name, arguments.val)
       ELSE IF function_name = CREATE_FILE
       THEN DoCreateFile(files, history, function_name, arguments.val)
       ELSE IF function_name = CREATE_MULTIPLE_FILES
       THEN DoCreateMultipleFiles(files, history, function_name, arguments.val)
       ELSE IF function_name = EDIT_FILE
       THEN DoEditFile(files, history, function_name, arguments.val)
       ELSE Dispatched([kind |-> "unknown_function", name |-> function_name],
                       files, history, <<>>, NoPatch)

(***************************************************************************)
(* Conversation state: trim_conversation_history.                          *)
(***************************************************************************)
TrimThreshold == 20
KeepRecent == 15

RECURSIVE Select(_, _)
Select(history, system) ==
    IF history = <<>> THEN <<>>
    ELSE IF (Head(history).role = "system") = system
         THEN <<Head(history)>> \o Select(Tail(history), system)
         ELSE Select(Tail(history), system)

\* a trim that has no early return for a short conversation
trim_conversation_history_always(history) ==
    LET system_msgs == Select(history, TRUE)
        other_msgs == Select(history, FALSE)
    IN system_msgs \o
       (IF Len(other_msgs) > KeepRecent
        THEN SubSeq(other_msgs, Len(other_msgs) - KeepRecent + 1, Len(other_msgs))
        ELSE other_msgs)

\* a trim that cuts the conversation from the front, whatever the roles
trim_conversation_history_from_front(history) ==
    IF Len(history) <= TrimThreshold THEN history
    ELSE SubSeq(history, Len(history) - KeepRecent + 1, Len(history))

trim_conversation_history(history) ==
    IF Len(history) <= TrimThreshold THEN history
    ELSE LET system_msgs == Select(history, TRUE)
             other_msgs == Select(history, FALSE)
         IN system_msgs \o
            (IF Len(other_msgs) > KeepRecent
             THEN SubSeq(other_msgs, Len(other_msgs) - KeepRecent + 1, Len(other_msgs))
             ELSE other_msgs)

(***************************************************************************)
(* The streamed reply.  A chunk is [reasoning, content, tool_calls]: its   *)
(* delta's reasoning text, answer text and tool-call fragments, each       *)
(* possibly empty.  A fragment is [index, id, name, arguments].            *)
(***************************************************************************)
BlankToolCall == [id |-> <<>>, type |-> "function", function |-> [name |-> <<>>, arguments |-> <<>>]]

RECURSIVE Pad(_, _)
Pad(tool_calls, index) ==
    IF Len(tool_calls) > index THEN tool_calls
    ELSE Pad(Append(tool_calls, BlankToolCall), index)

\* one tool_call_delta; indices count from 0
AddDelta(tool_calls, delta) ==
    LET padded == Pad(tool_calls, delta.index)
        old == padded[delta.index + 1]
    IN [padded EXCEPT ![delta.index + 1] =
            [id |-> IF delta.id # <<>> THEN delta.id ELSE old.id,
             type |-> "function",
             function |-> [name |-> old.function.name \o delta.name,
                           arguments |-> old.function.arguments \o delta.arguments]]]

RECURSIVE AddDeltas(_, _)
AddDeltas(tool_calls, deltas) ==
    IF deltas = <<>> THEN tool_calls
    ELSE AddDeltas(AddDelta(tool_calls, Head(deltas)), Tail(deltas))

\* the loop over the primary stream: final_content and tool_calls
RECURSIVE Consume(_, _, _)
Consume(stream, final_content, tool_calls) ==
    IF stream = <<>> THEN [final_content |-> final_content, tool_calls |-> tool_calls]
    ELSE LET chunk == Head(stream)
         IN IF chunk.reasoning # <<>> THEN Consume(Tail(stream), final_content, tool_calls)
            ELSE IF chunk.content # <<>>
            THEN Consume(Tail(stream), final_content \o chunk.content, tool_calls)
            ELSE Consume(Tail(stream), final_content, AddDeltas(tool_calls, chunk.tool_calls))

\* the loop over the follow-up stream: follow_up_content
RECURSIVE ConsumeFollowUp(_, _)
ConsumeFollowUp(stream, follow_up_content) ==
    IF stream = <<>> THEN follow_up_content
    ELSE LET chunk == Head(stream)
         IN IF chunk.reasoning # <<>> THEN ConsumeFollowUp(Tail(stream), follow_up_content)
            ELSE ConsumeFollowUp(Tail(stream), follow_up_content \o chunk.content)

\* a local id made of the clock alone
LocalIdOfClock(i, now) == <<"call", 0, now>>

\* f"call_{i}_{int(time.time() * 1000)}"
LocalId(i, now) == <<"call", i, now>>

\* every assembled tool call with an id, named or not
RECURSIVE FormatAll(_, _, _)
FormatAll(tool_calls, i, now) ==
    IF i > Len(tool_calls) THEN <<>>
    ELSE LET tc == tool_calls[i]
         IN <<[id |-> IF tc.id # <<>> THEN tc.id ELSE LocalId(i - 1, now),
               type |-> "function",
               function |-> [name |-> tc.function.name,
                             arguments |-> tc.function.arguments]]>>
            \o FormatAll(tool_calls, i + 1, now)

\* formatted_tool_calls: the named tool calls, each with an id
RECURSIVE Format(_, _, _)
Format(tool_calls, i, now) ==
    IF i > Len(tool_calls) THEN <<>>
    ELSE LET tc == tool_calls[i]
         IN (IF tc.function.name # <<>>
             THEN <<[id |-> IF tc.id # <<>> THEN tc.id ELSE LocalId(i - 1, now),
                    type |-> "function",
                    function |-> [name |-> tc.function.name,
                                  arguments |-> tc.function.arguments]]>>
             ELSE <<>>)
            \o Format(tool_calls, i + 1, now)

(***************************************************************************)
(* /add: try_handle_add_command and add_directory_to_conversation.         *)
(***************************************************************************)
MaxFiles == 1000
PeekSize == 1024

\* file.startswith('.'), file in excluded_files, ext.lower() in excluded_extensions,
\* for the names the model's file systems use
StartsWithDot(name) == name \in {".env", ".git", ".x.png"}
InExcludedFiles(name) == name \in {".env", ".git", "node_modules", "dist"}

\* os.path.splitext(file)[1].lower(): what follows the last dot of the name
SplitExt(name) ==
    IF name \in {"p.png", ".x.png"} THEN ".png"
    ELSE IF name = "m.log" THEN ".log"
    ELSE IF name = "a.min.js" THEN ".js"
    ELSE ""

excluded_extensions == {".png", ".log", ".min.js"}

\* the name ends with an entry of excluded_extensions
HasExcludedEnding(name) == name \in {"p.png", ".x.png", "m.log", "a.min.js"}

HasExcludedExtension(name) == SplitExt(name) \in excluded_extensions

IsPrefix(dir, path) == Len(dir) < Len(path) /\ SubSeq(path, 1, Len(dir)) = dir

\* os.path.isdir
IsDir(files, path) == \E f \in DOMAIN files : IsPrefix(path, f)

Parent(path) == SubSeq(path, 1, Len(path) - 1)

\* the files os.walk reaches below directory: no directory on the way is hidden or excluded
Walked(files, directory) ==
    {f \in DOMAIN files :
        /\ IsPrefix(directory, f)
        /\ \A i \in (Len(directory) + 1)..(Len(f) - 1) :
               ~StartsWithDot(f[i]) /\ ~InExcludedFiles(f[i])}

\* the orders in which os.walk (top-down) can list them: a directory's own files come
\* before the files of its subdirectories
WalkOrders(files, directory) ==
    LET reached == Walked(files, directory)
        n == Cardinality(reached)
    IN {order \in [1..n -> reached] :
           /\ \A i, j \in 1..n : i # j => order[i] # order[j]
           /\ \A i, j \in 1..n :
                  IsPrefix(Parent(order[i]), Parent(order[j])) => i < j}

\* is_binary_file: a NUL byte among the first peek_size bytes
is_binary_file(files, path) ==
    \E i \in 1..Len(files[path]) :
        /\ files[path][i] = "0"
        /\ PyLen(SubSeq(files[path], 1, i - 1)) < PeekSize

\* the loop over the files, from the i-th of the walk on
RECURSIVE AddEach(_, _, _, _, _)
AddEach(files, order, i, history, st) ==
    IF i > Len(order) \/ st.total_files_processed >= MaxFiles
    THEN [exc |-> "none", history |-> history, added_files |-> st.added_files,
          skipped_files |-> st.skipped_files, io |-> st.io]
    ELSE LET full_path == order[i]
             file == full_path[Len(full_path)]
             skip == [st EXCEPT !.skipped_files = Append(@, [file |-> full_path, note |-> ""])]
             too_big == [st EXCEPT !.skipped_files =
                                       Append(@, [file |-> full_path, note |-> "size"])]
             peeked == [st EXCEPT !.io = Append(@, ReadAccess(AsPathString(full_path)))]
             content == read_local_file(files, AsPathString(full_path))
         IN IF StartsWithDot(file) \/ InExcludedFiles(file)
            THEN AddEach(files, order, i + 1, history, skip)
            ELSE IF HasExcludedExtension(file)
            THEN AddEach(files, order, i + 1, history, skip)
            ELSE IF PyLen(files[full_path]) > MaxFileSize
            THEN AddEach(files, order, i + 1, history, too_big)
            ELSE IF is_binary_file(files, full_path)
            THEN AddEach(files, order, i + 1, history,
                         [peeked EXCEPT !.skipped_files =
                                            Append(@, [file |-> full_path, note |-> ""])])
            ELSE IF Raised(normalize_path(AsPathString(full_path)))
            THEN [exc |-> "ValueError", history |-> history, added_files |-> st.added_files,
                  skipped_files |-> st.skipped_files, io |-> peeked.io]
            ELSE IF Raised(content)
            THEN \* UnicodeDecodeError is no OSError: it leaves the function
                 [exc |-> content.exc, history |-> history, added_files |-> st.added_files,
                  skipped_files |-> st.skipped_files,
                  io |-> Append(peeked.io, ReadAccess(AsPathString(full_path)))]
            ELSE AddEach(files, order, i + 1,
                         Append(history, SystemTurn(FileContent(full_path, content.val))),
                         [peeked EXCEPT
                             !.io = Append(@, ReadAccess(AsPathString(full_path))),
                             !.added_files = Append(@, full_path),
                             !.total_files_processed = @ + 1])

add_directory_to_conversation(files, history, order) ==
    AddEach(files, order, 1, history,
            [added_files |-> <<>>, skipped_files |-> <<>>, total_files_processed |-> 0,
             io |-> <<>>])

\* user_input = "/add " + path_to_add; order is the walk's order when the path is a directory
try_handle_add_command(files, history, path_to_add, order) ==
    LET normalized == normalize_path(path_to_add)
        walked == add_directory_to_conversation(files, history, order)
        content == read_local_file(files, AsPathString(normalized.val))
    IN IF Raised(normalized)
       THEN [exc |-> "ValueError", history |-> history, io |-> <<>>]
       ELSE IF IsDir(files, normalized.val)
       THEN [exc |-> walked.exc, history |-> walked.history, io |-> walked.io]
       ELSE IF content.exc = "FileNotFoundError"
       THEN \* an OSError: caught and reported
            [exc |-> "none", history |-> history, io |-> <<>>]
       ELSE IF Raised(content)
       THEN [exc |-> content.exc, history |-> history,
             io |-> <<ReadAccess(AsPathString(normalized.val))>>]
       ELSE [exc |-> "none",
             history |-> Append(history, SystemTurn(FileContent(normalized.val, content.val))),
             io |-> <<ReadAccess(AsPathString(normalized.val))>>]

(***************************************************************************)
(* The session: main's loop and stream_openai_response.  What the user     *)
(* types and what the model service sends are drawn from cfg, a record of  *)
(* sequences: texts, streams (primary replies), follow_ups, add_paths; and *)
(* of limits on how often each happens.  A stream of cfg is a function of  *)
(* the request's number, so that the ids the service assigns differ from   *)
(* request to request.                                                     *)
(***************************************************************************)
AssistantTurn(content) == [role |-> "assistant", content |-> content]
AssistantToolTurn(content, tool_calls) ==
    [role |-> "assistant", content |-> content, tool_calls |-> tool_calls]

\* int(time.time() * 1000): the clock advances from one request to the next
Now == n_inputs + 1

\* stream_openai_response(user_message) up to the end of the primary stream, the model
\* request failing
PrimaryFails(cfg) ==
    \E t \in 1..Len(cfg.texts) :
        /\ pc = "prompt"
        /\ n_inputs < cfg.max_inputs
        /\ n_failures < cfg.max_failures
        /\ conversation_history' =
               trim_conversation_history(Append(conversation_history, UserTurn(cfg.texts[t])))
        /\ n_inputs' = n_inputs + 1
        /\ n_failures' = n_failures + 1
        /\ last' = [op |-> "stream_openai_response", ret |-> "error", request |-> "primary",
                    turns_before |-> Len(conversation_history)]
        /\ UNCHANGED <<fs, pc, batch, cursor, n_adds, n_calls>>

\* stream_openai_response(user_message) up to the first tool call, or to its return when
\* there is none
Primary(cfg) ==
    \E t \in 1..Len(cfg.texts), k \in 1..Len(cfg.streams) :
        LET history == trim_conversation_history(
                           Append(conversation_history, UserTurn(cfg.texts[t])))
            got == Consume(cfg.streams[k][Now], <<>>, <<>>)
            content == IF got.final_content # <<>> THEN PlainText(got.final_content) ELSE None
            formatted_tool_calls == Format(got.tool_calls, 1, Now)
        IN /\ pc = "prompt"
           /\ n_inputs < cfg.max_inputs
           /\ n_calls + Len(formatted_tool_calls) <= cfg.max_calls
           /\ n_inputs' = n_inputs + 1
           /\ n_calls' = n_calls + Len(formatted_tool_calls)
           /\ IF got.tool_calls = <<>>
              THEN /\ conversation_history' = Append(history, AssistantTurn(content))
                   /\ UNCHANGED <<pc, batch, cursor>>
              ELSE IF formatted_tool_calls = <<>>
              THEN \* tool calls, none of them named: no message is stored
                   /\ conversation_history' = history
                   /\ UNCHANGED <<pc, batch, cursor>>
              ELSE /\ conversation_history' =
                          Append(history, AssistantToolTurn(content, formatted_tool_calls))
                   /\ pc' = "executing"
                   /\ batch' = formatted_tool_calls
                   /\ cursor' = 1
           /\ last' = [op |-> "stream_openai_response",
                       ret |-> IF formatted_tool_calls = <<>> THEN "success" ELSE "running",
                       request |-> "primary", turns_before |-> Len(conversation_history),
                       tool_calls |-> got.tool_calls]
           /\ UNCHANGED <<fs, n_adds, n_failures>>

\* a loop over formatted_tool_calls that answers only the calls that did not fail
ExecuteToolCallDroppingErrors ==
    LET tool_call == batch[cursor]
        done == execute_function_call_dict(fs, conversation_history, tool_call)
    IN /\ pc = "executing"
       /\ fs' = done.fs
       /\ conversation_history' =
              IF done.result.kind = "error" THEN done.history
              ELSE Append(done.history, ToolTurn(tool_call.id, done.result))
       /\ cursor' = cursor + 1
       /\ pc' = IF cursor = Len(batch) THEN "follow_up" ELSE "executing"
       /\ last' = [op |-> "execute_function_call_dict", tool_call |-> tool_call,
                   result |-> done.result, io |-> done.io, patch |-> done.patch,
                   before |-> fs, turns_before |-> Len(conversation_history)]
       /\ UNCHANGED <<batch, n_inputs, n_adds, n_failures, n_calls>>

\* one turn of the loop over formatted_tool_calls
ExecuteToolCall ==
    LET tool_call == batch[cursor]
        done == execute_function_call_dict(fs, conversation_history, tool_call)
    IN /\ pc = "executing"
       /\ fs' = done.fs
       /\ conversation_history' = Append(done.history, ToolTurn(tool_call.id, done.result))
       /\ cursor' = cursor + 1
       /\ pc' = IF cursor = Len(batch) THEN "follow_up" ELSE "executing"
       /\ last' = [op |-> "execute_function_call_dict", tool_call |-> tool_call,
                   result |-> done.result, io |-> done.io, patch |-> done.patch,
                   before |-> fs, turns_before |-> Len(conversation_history)]
       /\ UNCHANGED <<batch, n_inputs, n_adds, n_failures, n_calls>>

\* a follow-up that stores what it had received when the stream broke
FollowUpFailsAfterStoring(cfg) ==
    /\ pc = "follow_up"
    /\ n_failures < cfg.max_failures
    /\ conversation_history' = Append(conversation_history, AssistantTurn(PlainText(<<>>)))
    /\ pc' = "prompt"
    /\ batch' = <<>>
    /\ cursor' = 1
    /\ n_failures' = n_failures + 1
    /\ last' = [op |-> "stream_openai_response", ret |-> "error", request |-> "follow_up",
                turns_before |-> Len(conversation_history)]
    /\ UNCHANGED <<fs, n_inputs, n_adds, n_calls>>

\* the follow-up request failing
FollowUpFails(cfg) ==
    /\ pc = "follow_up"
    /\ n_failures < cfg.max_failures
    /\ pc' = "prompt"
    /\ batch' = <<>>
    /\ cursor' = 1
    /\ n_failures' = n_failures + 1
    /\ last' = [op |-> "stream_openai_response", ret |-> "error", request |-> "follow_up",
                turns_before |-> Len(conversation_history)]
    /\ UNCHANGED <<fs, conversation_history, n_inputs, n_adds, n_calls>>

\* a follow-up that assembles the tool calls of its stream and executes them in turn
FollowUpDispatching(cfg) ==
    \E k \in 1..Len(cfg.follow_ups) :
        LET got == Consume(cfg.follow_ups[k], <<>>, <<>>)
            formatted_tool_calls == Format(got.tool_calls, 1, Now)
        IN /\ pc = "follow_up"
           /\ formatted_tool_calls # <<>>
           /\ conversation_history' =
                  Append(conversation_history,
                         AssistantToolTurn(PlainText(got.final_content), formatted_tool_calls))
           /\ pc' = "executing"
           /\ batch' = formatted_tool_calls
           /\ cursor' = 1
           /\ last' = [op |-> "stream_openai_response", ret |-> "running",
                       request |-> "follow_up", turns_before |-> Len(conversation_history)]
           /\ UNCHANGED <<fs, n_inputs, n_adds, n_failures, n_calls>>

\* the follow-up request and its stream, to the return of stream_openai_response
FollowUp(cfg) ==
    \E k \in 1..Len(cfg.follow_ups) :
        /\ pc = "follow_up"
        /\ conversation_history' =
               Append(conversation_history,
                      AssistantTurn(PlainText(ConsumeFollowUp(cfg.follow_ups[k], <<>>))))
        /\ pc' = "prompt"
        /\ batch' = <<>>
        /\ cursor' = 1
        /\ last' = [op |-> "stream_openai_response", ret |-> "success", request |-> "follow_up",
                    turns_before |-> Len(conversation_history)]
        /\ UNCHANGED <<fs, n_inputs, n_adds, n_failures, n_calls>>

\* main reads a line "/add <path>"; an exception that leaves the handler ends the process
AddCommand(cfg) ==
    \E a \in 1..Len(cfg.add_paths) :
        \E order \in WalkOrders(fs, Resolve(cfg.add_paths[a])) :
            LET added == try_handle_add_command(fs, conversation_history, cfg.add_paths[a], order)
            IN /\ pc = "prompt"
               /\ n_adds < cfg.max_adds
               /\ n_adds' = n_adds + 1
               /\ conversation_history' = added.history
               /\ pc' = IF Raised(added) THEN "crashed" ELSE "prompt"
               /\ last' = [op |-> "try_handle_add_command", path |-> cfg.add_paths[a],
                           exc |-> added.exc, io |-> added.io,
                           turns_before |-> Len(conversation_history)]
               /\ UNCHANGED <<fs, batch, cursor, n_inputs, n_failures, n_calls>>

(***************************************************************************)
(* The path check alone: Init draws a path string, the one action applies  *)
(* normalize_path to it.                                                   *)
(***************************************************************************)
SystemPrompt == [kind |-> "prompt"]

InitSession ==
    /\ conversation_history = <<[role |-> "system", content |-> SystemPrompt]>>
    /\ pc = "prompt"
    /\ batch = <<>>
    /\ cursor = 1
    /\ n_inputs = 0
    /\ n_adds = 0
    /\ n_failures = 0
    /\ n_calls = 0

InitPath ==
    /\ InitSession
    /\ fs = <<>>
    /\ \E p \in PathStrings : last = [op |-> "argument", path |-> p]

CallNormalizePath ==
    /\ last.op = "argument"
    /\ last' = [op |-> "normalize_path", path |-> last.path, ret |-> normalize_path(last.path)]
    /\ UNCHANGED <<fs, conversation_history, pc, batch, cursor, n_inputs, n_adds, n_failures, n_calls>>

NextPath == CallNormalizePath

SpecPath == InitPath /\ [][NextPath]_vars

(***************************************************************************)
(* What the model service sends.  A request is [name, arguments, has_id];  *)
(* the stream of a batch delivers each request in two fragments: the id    *)
(* and the head of the name, then the rest of the name and the arguments.  *)
(***************************************************************************)
Chunk(reasoning, content, tool_calls) ==
    [reasoning |-> reasoning, content |-> content, tool_calls |-> tool_calls]

Delta(index, id, name, arguments) ==
    [index |-> index, id |-> id, name |-> name, arguments |-> arguments]

\* the id the service gives the request at index i of its n-th reply
ServiceId(n, i) == <<"svc", n, i>>

RECURSIVE RequestChunks(_, _, _)
RequestChunks(requests, i, n) ==
    IF i > Len(requests) THEN <<>>
    ELSE LET r == requests[i]
         IN << Chunk(<<>>, <<>>,
                     <<Delta(i - 1, IF r.has_id THEN ServiceId(n, i - 1) ELSE <<>>,
                             SubSeq(r.name, 1, 1), <<>>)>>),
               Chunk(<<>>, <<>>,
                     <<Delta(i - 1, <<>>, SubSeq(r.name, 2, Len(r.name)), r.arguments)>>) >>
            \o RequestChunks(requests, i + 1, n)

\* the n-th reply: reasoning, the answer text if any, the requests
StreamOf(text, requests, n) ==
    <<Chunk(<<"r">>, <<>>, <<>>)>>
    \o (IF text = <<>> THEN <<>> ELSE <<Chunk(<<>>, text, <<>>)>>)
    \o RequestChunks(requests, 1, n)

Object(members) == <<Open>> \o members \o <<Close>>

Request(name, members, has_id) ==
    [name |-> name, arguments |-> Object(members), has_id |-> has_id]

Rel(parts) == [abs |-> FALSE, parts |-> parts]

ReadFile(path) == Request(READ_FILE, <<Member("file_path", path)>>, TRUE)
ReadMultipleFiles(paths) == Request(READ_MULTIPLE_FILES, <<Member("file_paths", paths)>>, TRUE)
CreateFile(path, content) ==
    Request(CREATE_FILE, <<Member("file_path", path), Member("content", content)>>, TRUE)
CreateMultipleFiles(files) == Request(CREATE_MULTIPLE_FILES, <<Member("files", files)>>, TRUE)
EditFile(path, original_snippet, new_snippet) ==
    Request(EDIT_FILE, <<Member("file_path", path),
                         Member("original_snippet", original_snippet),
                         Member("new_snippet", new_snippet)>>, TRUE)

\* the batches of at most two requests, as sequences of indices into a sequence of r requests
Batches(r) ==
    <<<<>>>> \o [i \in 1..r |-> <<i>>]
    \o [k \in 1..(r * r) |-> <<((k - 1) \div r) + 1, ((k - 1) % r) + 1>>]

\* the second request of a batch comes without an id
Pick(requests, plan) ==
    [j \in 1..Len(plan) |-> IF j = 2 THEN [requests[plan[j]] EXCEPT !.has_id = FALSE]
                            ELSE requests[plan[j]]]

\* every batch without answer text, and the first with_text batches (the empty one, the
\* first request alone) also with it
Streams(requests, rounds, with_text) ==
    LET plans == Batches(Len(requests))
    IN [k \in 1..(Len(plans) + with_text) |->
           [n \in 1..rounds |->
               IF k <= Len(plans)
               THEN StreamOf(<<>>, Pick(requests, plans[k]), n)
               ELSE StreamOf(<<"o", "k">>, Pick(requests, plans[k - Len(plans)]), n)]]

\* a follow-up reply: reasoning, answer text, and a tool-call fragment
FollowUps == << <<Chunk(<<"r">>, <<>>, <<>>), Chunk(<<>>, <<"d">>, <<>>),
                 Chunk(<<>>, <<>>, <<Delta(0, <<>>, READ_FILE, <<>>)>>)>> >>

(***************************************************************************)
(* A session with files: a working directory /w holding a, a directory     *)
(* /w/~ holding a, and a file /e outside the working directory.            *)
(***************************************************************************)
Files ==
    [q \in {<<"w", "a">>, <<"w", "~", "a">>, <<"e">>} |->
        IF q = <<"w", "a">> THEN <<"x", "y", "x">> ELSE <<"y">>]

Requests ==
    << ReadFile(Rel(<<"a">>)),
       ReadFile(Rel(<<"~", "a">>)),
       ReadFile(Rel(<<"..", "e">>)),
       CreateFile(Rel(<<"d">>), <<"y">>),
       CreateFile(Rel(<<"~", "a">>), <<"x">>),
       EditFile(Rel(<<"a">>), <<"x">>, <<"y">>),
       EditFile(Rel(<<"a">>), <<"y">>, <<"B">>),
       EditFile(Rel(<<"a">>), <<"B">>, <<"y">>),
       EditFile(Rel(<<"n">>), <<"x">>, <<"y">>),
       ReadMultipleFiles(<<Rel(<<"a">>), Rel(<<"n">>)>>),
       CreateMultipleFiles(<<[path |-> Rel(<<"d">>), content |-> <<"x">>],
                             [path |-> Rel(<<"..", "..", "d">>), content |-> <<"x">>]>>) >>

Session ==
    [texts |-> <<PlainText(<<"h", "i">>)>>,
     streams |-> Streams(Requests, MaxInputs, 2),
     follow_ups |-> FollowUps,
     add_paths |-> <<Rel(<<"a">>), Rel(<<".">>)>>,
     max_inputs |-> MaxInputs,
     max_calls |-> MaxCalls,
     max_adds |-> MaxAdds,
     max_failures |-> MaxFailures]

Init ==
    /\ InitSession
    /\ fs = Files
    /\ last = [op |-> "start"]

Next ==
    \/ PrimaryFails(Session)
    \/ Primary(Session)
    \/ ExecuteToolCall
    \/ FollowUpFails(Session)
    \/ FollowUp(Session)
    \/ AddCommand(Session)

Spec == Init /\ [][Next]_vars

(***************************************************************************)
(* A long session: the only tool call is read_file of a, alone or twice in *)
(* a batch, so that the conversation outgrows the trimming threshold.      *)
(***************************************************************************)
LongSession ==
    [texts |-> <<PlainText(<<"h", "i">>)>>,
     streams |-> Streams(<<ReadFile(Rel(<<"a">>))>>, LongInputs, 0),
     follow_ups |-> FollowUps,
     add_paths |-> <<Rel(<<"a">>)>>,
     max_inputs |-> LongInputs,
     max_calls |-> 2 * LongInputs,
     max_adds |-> LongAdds,
     max_failures |-> MaxFailures]

NextTrim ==
    \/ PrimaryFails(LongSession)
    \/ Primary(LongSession)
    \/ ExecuteToolCall
    \/ FollowUpFails(LongSession)
    \/ FollowUp(LongSession)
    \/ AddCommand(LongSession)

SpecTrim == Init /\ [][NextTrim]_vars

(***************************************************************************)
(* A session of tool calls: batches that hold a rejected path, a file that *)
(* is not text, argument text that is no JSON object, a missing field, a   *)
(* function the dispatcher does not know; and replies whose tool-call      *)
(* fragments carry no function name.  /w holds a, the empty file z and u,  *)
(* which is not decodable.                                                 *)
(***************************************************************************)
ToolFiles ==
    [q \in {<<"w", "a">>, <<"w", "z">>, <<"w", "u">>} |->
        IF q = <<"w", "a">> THEN <<"x", "y">>
        ELSE IF q = <<"w", "u">> THEN <<"#">> ELSE <<>>]

RUN_SHELL == <<"run_", "shell">>

ToolRequests ==
    << EditFile(Rel(<<"a">>), <<"y">>, <<"x">>),
       CreateMultipleFiles(<<[path |-> Rel(<<"d">>), content |-> <<"x">>],
                             [path |-> Rel(<<"~", "a">>), content |-> <<"x">>],
                             [path |-> Rel(<<"n">>), content |-> <<"y">>]>>),
       ReadMultipleFiles(<<Rel(<<"n">>), Rel(<<"u">>), Rel(<<"a">>)>>),
       ReadMultipleFiles(<<Rel(<<"n">>), Rel(<<"a">>)>>),
       [name |-> READ_FILE, arguments |-> <<Open, Junk>>, has_id |-> TRUE],
       Request(CREATE_FILE, <<Member("file_path", Rel(<<"d">>))>>, TRUE),
       Request(RUN_SHELL, <<Member("file_path", Rel(<<"a">>))>>, TRUE),
       [name |-> RUN_SHELL, arguments |-> <<Open, Junk>>, has_id |-> TRUE],
       ReadFile(Rel(<<"z">>)),
       ReadMultipleFiles(<<>>) >>

\* a reply with answer text and one tool-call fragment that names no function
Unnamed(n) ==
    << Chunk(<<"r">>, <<>>, <<>>),
       Chunk(<<>>, <<"o", "k">>, <<>>),
       Chunk(<<>>, <<>>, <<Delta(0, ServiceId(n, 0), <<>>, Object(<<>>))>>) >>

\* a reply whose only fragments are for index 1: the call at index 0 stays blank
Padded(n) ==
    << Chunk(<<"r">>, <<>>, <<>>),
       Chunk(<<>>, <<>>, <<Delta(1, ServiceId(n, 1), READ_FILE,
                                 Object(<<Member("file_path", Rel(<<"a">>))>>))>>) >>

ToolSession ==
    [texts |-> <<PlainText(<<"h", "i">>)>>,
     streams |-> Streams(ToolRequests, ToolInputs, 2)
                 \o << [n \in 1..ToolInputs |-> Unnamed(n)], [n \in 1..ToolInputs |-> Padded(n)] >>,
     follow_ups |-> FollowUps,
     add_paths |-> <<Rel(<<"a">>)>>,
     max_inputs |-> ToolInputs,
     max_calls |-> MaxCalls,
     max_adds |-> LongAdds,
     max_failures |-> MaxFailures]

InitTools ==
    /\ InitSession
    /\ fs = ToolFiles
    /\ last = [op |-> "start"]

NextTools ==
    \/ PrimaryFails(ToolSession)
    \/ Primary(ToolSession)
    \/ ExecuteToolCall
    \/ FollowUpFails(ToolSession)
    \/ FollowUp(ToolSession)
    \/ AddCommand(ToolSession)

SpecTools == InitTools /\ [][NextTools]_vars

\* a relative path whose ".." components lead out of the working directory
EscapesCwd(path_str) ==
    /\ ~path_str.abs
    /\ ".." \in Range(path_str.parts)
    /\ \/ Len(Resolve(path_str)) < Len(Cwd)
       \/ SubSeq(Resolve(path_str), 1, Len(Cwd)) # Cwd

\* a relative path with ".." components that resolves inside the working directory,
\* none of whose components begins with "~"
ResolvesInside(path_str) ==
    /\ ~path_str.abs
    /\ ".." \in Range(path_str.parts)
    /\ ~EscapesCwd(path_str)
    /\ \A i \in 1..Len(path_str.parts) : path_str.parts[i] \notin {"~", "~u"}

\* C9: normalize_path fails for a path that escapes through parent-directory segments and
\* for a path with a component beginning with the home shorthand, and returns the resolved
\* canonical path for a path whose ".." segments resolve inside the working tree.
C9_PathContainment ==
    last.op = "normalize_path" =>
        /\ EscapesCwd(last.path) => Raised(last.ret)
        /\ (\E i \in 1..Len(last.path.parts) : last.path.parts[i] \in {"~", "~u"})
               => Raised(last.ret)
        /\ ResolvesInside(last.path) =>
               /\ ~Raised(last.ret)
               /\ last.ret.val = Resolve(last.path)
               /\ ".." \notin Range(last.ret.val)

(***************************************************************************)
(* The patch engine alone: Init draws the text of one file, at a plain     *)
(* path or below a directory named "~", and the one step applies an edit.  *)
(***************************************************************************)
PlainFile == [abs |-> FALSE, parts |-> <<"a">>]
TildeFile == [abs |-> FALSE, parts |-> <<"~", "a">>]
MissingFile == [abs |-> FALSE, parts |-> <<"d">>]

PatchPaths == {PlainFile, TildeFile, MissingFile}

InitPatch ==
    /\ InitSession
    /\ \E text \in Texts(MaxLen), at \in {PlainFile, TildeFile} :
           fs = [q \in {Resolve(at)} |-> text]
    /\ last = [op |-> "start"]

CallApplyDiffEdit ==
    \E path \in PatchPaths, original_snippet \in Texts(MaxSnippet), new_snippet \in Texts(MaxNew) :
        LET r == apply_diff_edit(fs, path, original_snippet, new_snippet)
        IN /\ last.op = "start"
           /\ fs' = r.fs
           /\ last' = [op |-> "apply_diff_edit", path |-> path,
                       original_snippet |-> original_snippet, new_snippet |-> new_snippet,
                       before |-> fs, exc |-> r.exc, caught |-> r.caught, msg |-> r.msg,
                       io |-> r.io]
           /\ UNCHANGED <<conversation_history, pc, batch, cursor, n_inputs, n_adds, n_failures, n_calls>>

NextPatch == CallApplyDiffEdit

SpecPatch == InitPatch /\ [][NextPatch]_vars

(***************************************************************************)
(* Vocabulary of the properties.                                           *)
(***************************************************************************)
Wrote(io) == \E i \in 1..Len(io) : io[i].op = "write"

\* the positions where sub occurs in text, as a literal
OccurrencePositions(text, sub) ==
    {i \in 1..(Len(text) + 1) :
        /\ i + Len(sub) - 1 <= Len(text)
        /\ \A k \in 1..Len(sub) : text[i + k - 1] = sub[k]}

\* the largest number of occurrences of sub in text no two of which overlap
Occurrences(text, sub) ==
    LET disjoint == {P \in SUBSET OccurrencePositions(text, sub) :
                        \A i, j \in P : i < j => i + Len(sub) <= j}
    IN CHOOSE n \in 0..(Len(text) + 1) :
           /\ \E P \in disjoint : Cardinality(P) = n
           /\ \A P \in disjoint : Cardinality(P) <= n

HasTildePart(path_str) == \E i \in 1..Len(path_str.parts) : path_str.parts[i] \in {"~", "~u"}

Applied == last.op = "apply_diff_edit"
TargetExisted == Applied /\ Resolve(last.path) \in DOMAIN last.before
TextBefore == last.before[Resolve(last.path)]
TextAfter == fs[Resolve(last.path)]
\* the length of the text with one occurrence of the original snippet replaced
UpdatedLen == PyLen(TextBefore) - PyLen(last.original_snippet) + PyLen(last.new_snippet)
WriteAccepted == ~HasTildePart(last.path) /\ UpdatedLen <= 5000000

\* C1 as stated: apply_diff_edit rewrites the file if and only if the snippet occurs in it
\* exactly once (non-overlapping literal count).
C1_RewritesIffExactlyOnce ==
    TargetExisted =>
        (Wrote(last.io) <=> Occurrences(TextBefore, last.original_snippet) = 1)

\* C1 as amended: apply_diff_edit rewrites the file if and only if the snippet occurs in it
\* exactly once and create_file accepts the result (no component of the path begins with
\* "~", the updated text has at most 5,000,000 characters); with a count of 0 or of more
\* than 1 it performs no write.
C1_RewritesIffExactlyOnceAndAccepted ==
    TargetExisted =>
        /\ Wrote(last.io) <=>
               (Occurrences(TextBefore, last.original_snippet) = 1 /\ WriteAccepted)
        /\ Occurrences(TextBefore, last.original_snippet) # 1 => fs = last.before

C1_Witness ==
    /\ TargetExisted
    /\ Occurrences(TextBefore, last.original_snippet) = 1
    /\ Len(TextBefore) > Len(last.original_snippet)
    /\ Wrote(last.io)
    /\ fs # last.before

\* C5: after a failed apply (snippet absent, snippet ambiguous, file missing, size limit
\* exceeded, or any other failure the function reports), every file has the content it
\* had before the call.
C5_FailedApplyLeavesFileUnchanged ==
    (/\ Applied
     /\ \/ last.caught # "none"
        \/ last.exc # "none"
        \/ ~TargetExisted
        \/ Occurrences(TextBefore, last.original_snippet) # 1
        \/ UpdatedLen > 5000000)
        => fs = last.before

C5_Witness ==
    /\ TargetExisted
    /\ Occurrences(TextBefore, last.original_snippet) = 1
    /\ last.new_snippet # last.original_snippet
    /\ UpdatedLen > 5000000
    /\ last.caught = "ValueError"
    /\ fs = last.before

\* the file after the call is the file before it with one occurrence of the original
\* snippet replaced by the new one, and it was written
ReplacedOnce ==
    /\ Wrote(last.io)
    /\ \E i \in OccurrencePositions(TextBefore, last.original_snippet) :
           TextAfter = SubSeq(TextBefore, 1, i - 1) \o last.new_snippet
                       \o SubSeq(TextBefore, i + Len(last.original_snippet), Len(TextBefore))
    /\ \A q \in DOMAIN fs : q # Resolve(last.path) => q \in DOMAIN last.before /\ fs[q] = last.before[q]

\* C6 as stated: when the original snippet occurs exactly once in the file, apply writes
\* prefix + new snippet + suffix, prefix and suffix being the text before and after the
\* occurrence.
C6_ExactlyOnceIsReplaced ==
    (TargetExisted /\ Occurrences(TextBefore, last.original_snippet) = 1) => ReplacedOnce

\* C6 as amended: when the original snippet occurs exactly once in the file and create_file
\* accepts the result (no component of the path begins with "~", the updated text has at
\* most 5,000,000 characters), apply writes prefix + new snippet + suffix.
C6_ExactlyOnceAndAcceptedIsReplaced ==
    (TargetExisted /\ Occurrences(TextBefore, last.original_snippet) = 1 /\ WriteAccepted)
        => ReplacedOnce

C6_Witness ==
    /\ TargetExisted
    /\ Len(last.original_snippet) = 2
    /\ Len(TextBefore) = 3
    /\ TextBefore[3] # last.original_snippet[2]
    /\ last.new_snippet # <<>>
    /\ Occurrences(TextBefore, last.original_snippet) = 1
    /\ ReplacedOnce

\* C7: an apply whose original snippet is the empty string is rejected for every file
\* content, an empty file included, and never writes to the file.
C7_EmptySnippetRejected ==
    (TargetExisted /\ last.original_snippet = <<>>) =>
        /\ last.caught = "ValueError"
        /\ ~Wrote(last.io)
        /\ fs = last.before

(***************************************************************************)
(* Properties of the session.                                              *)
(***************************************************************************)
Executed == last.op = "execute_function_call_dict"
ExecutedArguments == JsonLoads(last.tool_call.function.arguments).val
ExecutedEdit ==
    /\ Executed
    /\ last.tool_call.function.name = EDIT_FILE
    /\ ~Raised(JsonLoads(last.tool_call.function.arguments))
    /\ \A k \in {"file_path", "original_snippet", "new_snippet"} : HasKey(ExecutedArguments, k)
EditTarget == Resolve(Get(ExecutedArguments, "file_path"))
HistoryBefore == SubSeq(conversation_history, 1, last.turns_before)

\* a system-role turn that carries the content of the file at the canonical path
CarriesFile(turn, file) ==
    turn.role = "system" /\ turn.content.kind = "file" /\ turn.content.file = file

C3_NoOrphanToolTurn ==
    \A i \in 1..Len(conversation_history) :
        conversation_history[i].role = "tool" =>
            \E j \in 1..(i - 1) :
                /\ conversation_history[j].role = "assistant"
                /\ "tool_calls" \in DOMAIN conversation_history[j]
                /\ \E k \in 1..Len(conversation_history[j].tool_calls) :
                       conversation_history[j].tool_calls[k].id
                           = conversation_history[i].tool_call_id

\* C4: when edit_file is dispatched for a readable file that no system-role turn carries
\* yet, the dispatcher appends a system-role turn with the file's content and then calls the
\* patch engine; and whenever edit_file has called the patch engine, a system-role turn
\* carrying the target file is in the conversation.
C4_EditIngestsFileFirst ==
    ExecutedEdit =>
        /\ (/\ EditTarget \in DOMAIN last.before
            /\ "#" \notin Range(last.before[EditTarget])
            /\ \A i \in 1..Len(HistoryBefore) : ~CarriesFile(HistoryBefore[i], EditTarget))
           => /\ \E i \in (last.turns_before + 1)..Len(conversation_history) :
                     /\ CarriesFile(conversation_history[i], EditTarget)
                     /\ conversation_history[i].content.text = last.before[EditTarget]
              /\ last.patch.invoked
        /\ last.patch.invoked =>
               \E i \in 1..Len(conversation_history) :
                   CarriesFile(conversation_history[i], EditTarget)

\* C8: however often a file was added to the conversation, by /add or by the edit_file
\* precondition, exactly one system-role turn carries its content (never two).
C8_OneSystemTurnPerFile ==
    \A i, j \in 1..Len(conversation_history) :
        (/\ conversation_history[i].role = "system"
         /\ conversation_history[j].role = "system"
         /\ conversation_history[i].content.kind = "file"
         /\ conversation_history[j].content.kind = "file"
         /\ conversation_history[i].content.file = conversation_history[j].content.file)
        => i = j

\* the paths a tool call names
RequestedPaths ==
    LET name == last.tool_call.function.name
        arguments == ExecutedArguments
    IN IF Raised(JsonLoads(last.tool_call.function.arguments)) THEN {}
       ELSE IF name \in {READ_FILE, CREATE_FILE, EDIT_FILE}
               /\ HasKey(arguments, "file_path")
       THEN {Get(arguments, "file_path")}
       ELSE IF name = READ_MULTIPLE_FILES /\ HasKey(arguments, "file_paths")
       THEN {Get(arguments, "file_paths")[i] : i \in 1..Len(Get(arguments, "file_paths"))}
       ELSE IF name = CREATE_MULTIPLE_FILES /\ HasKey(arguments, "files")
       THEN {Get(arguments, "files")[i].path : i \in 1..Len(Get(arguments, "files"))}
       ELSE {}

\* what the path check is to reject: a home shorthand, a traversal out of the working tree
GuardRejects(path_str) == HasTildePart(path_str) \/ EscapesCwd(path_str)

\* C10: the dispatcher reads or writes no file for a path the path check rejects (a
\* traversal out of the working tree, a component beginning with the home shorthand).
C10_NoAccessToRejectedPath ==
    Executed =>
        \A p \in RequestedPaths :
            GuardRejects(p) => \A i \in 1..Len(last.io) : last.io[i].file # Resolve(p)

(***************************************************************************)
(* Properties of the dispatcher's batches.                                 *)
(***************************************************************************)
ExecutedWith(function_name, keys) ==
    /\ Executed
    /\ last.tool_call.function.name = function_name
    /\ ~Raised(JsonLoads(last.tool_call.function.arguments))
    /\ HasAll(ExecutedArguments, keys)

\* create_file refuses the entry
EntryRejected(info) == Raised(create_file(last.before, info.path, info.content))

\* C11: after create_multiple_files on a list with a rejected entry, every entry that is
\* not rejected, before or after it, is written with its content, and the result is not a
\* bare error text but enumerates the entries.
C11_BatchCreateWritesTheRest ==
    ExecutedWith(CREATE_MULTIPLE_FILES, <<"files">>) =>
        LET infos == Get(ExecutedArguments, "files")
        IN (\E r \in 1..Len(infos) : EntryRejected(infos[r])) =>
               /\ \A i \in 1..Len(infos) :
                      ~EntryRejected(infos[i]) =>
                          /\ Resolve(infos[i].path) \in DOMAIN fs
                          /\ fs[Resolve(infos[i].path)] = infos[i].content
               /\ last.result.kind # "error"

(***************************************************************************)
(* Properties of stream_openai_response.                                   *)
(***************************************************************************)
LastTurn == conversation_history[Len(conversation_history)]
Returned(ret) == last.op = "stream_openai_response" /\ last.ret = ret

\* C12: when the primary request fails, the conversation is the trimmed conversation with
\* the user turn appended, as it was sent; when the follow-up request fails, the
\* conversation is the one the follow-up was sent with; in both cases the call returns an
\* error, the file system is untouched and the loop is back at the prompt.
C12_FailedRequestKeepsConversation ==
    [][/\ PrimaryFails(ToolSession) =>
              /\ \E t \in 1..Len(ToolSession.texts) :
                     conversation_history' =
                         trim_conversation_history(
                             Append(conversation_history, UserTurn(ToolSession.texts[t])))
              /\ conversation_history'[Len(conversation_history')].role = "user"
              /\ last'.ret = "error"
              /\ fs' = fs /\ pc' = "prompt"
       /\ FollowUpFails(ToolSession) =>
              /\ conversation_history' = conversation_history
              /\ conversation_history'[Len(conversation_history')].role = "tool"
              /\ \E i \in 1..Len(conversation_history') : conversation_history'[i].role = "user"
              /\ last'.ret = "error"
              /\ fs' = fs /\ pc' = "prompt"
      ]_vars

C12_Witness ==
    /\ Returned("error")
    /\ last.request = "follow_up"
    /\ LastTurn.role = "tool"
    /\ Len(conversation_history) = last.turns_before

\* the index of the last assistant turn that carries tool calls
RequestingTurn ==
    CHOOSE p \in 1..Len(conversation_history) :
        /\ "tool_calls" \in DOMAIN conversation_history[p]
        /\ \A q \in (p + 1)..Len(conversation_history) :
               "tool_calls" \notin DOMAIN conversation_history[q]

\* the tool_call_ids of the tool-role turns of a piece of the conversation, in order
RECURSIVE ToolCallIds(_)
ToolCallIds(history) ==
    IF history = <<>> THEN <<>>
    ELSE (IF Head(history).role = "tool" THEN <<Head(history).tool_call_id>> ELSE <<>>)
         \o ToolCallIds(Tail(history))

AnsweredIds ==
    ToolCallIds(SubSeq(conversation_history, RequestingTurn + 1, Len(conversation_history)))

\* C13: while a batch is executed the assistant turn carrying the batch is followed by one
\* tool-role turn per executed request, the j-th with the id of the j-th request; when the
\* follow-up is about to be issued there are exactly as many tool-role turns as requests.
C13_OneToolTurnPerRequest ==
    pc \in {"executing", "follow_up"} =>
        /\ conversation_history[RequestingTurn].tool_calls = batch
        /\ AnsweredIds = [j \in 1..(cursor - 1) |-> batch[j].id]
        /\ pc = "follow_up" => Len(AnsweredIds) = Len(batch)

C13_Witness ==
    /\ pc = "follow_up"
    /\ Len(batch) = 2
    /\ \E i \in (RequestingTurn + 1)..Len(conversation_history) :
           /\ conversation_history[i].role = "tool"
           /\ conversation_history[i].content.kind = "error"
    /\ LastTurn.content.kind # "error"

\* C14: whenever stream_openai_response has returned success, the last turn of the
\* conversation is an assistant turn, appended after the user turn that triggered the call.
C14_SuccessEndsWithAssistantTurn ==
    Returned("success") =>
        /\ LastTurn.role = "assistant"
        /\ \E i \in 1..(Len(conversation_history) - 1) : conversation_history[i].role = "user"

\* the function names of a sequence of tool calls, the empty ones left out
RECURSIVE Names(_)
Names(tool_calls) ==
    IF tool_calls = <<>> THEN <<>>
    ELSE (IF Head(tool_calls).function.name # <<>>
          THEN <<Head(tool_calls).function.name>> ELSE <<>>)
         \o Names(Tail(tool_calls))

AllNamed(tool_calls) ==
    \A j \in 1..Len(tool_calls) : tool_calls[j].function.name # <<>>

PrimaryEnded == last.op = "stream_openai_response" /\ last.request = "primary" /\ last.ret # "error"

\* C15: when the primary stream has ended, tools are executed if and only if an assembled
\* tool call has a function name, and the batch is the named calls in order; a call without
\* a name is in no assistant turn's tool calls and is never dispatched; a follow-up request
\* is made only after a batch was executed.
C15_ToolsIffNamedRequest ==
    /\ PrimaryEnded =>
           /\ pc = "executing" <=> Names(last.tool_calls) # <<>>
           /\ pc = "executing" =>
                  [j \in 1..Len(batch) |-> batch[j].function.name] = Names(last.tool_calls)
           /\ pc # "executing" => pc = "prompt"
    /\ \A i \in 1..Len(conversation_history) :
           "tool_calls" \in DOMAIN conversation_history[i] =>
               /\ conversation_history[i].tool_calls # <<>>
               /\ AllNamed(conversation_history[i].tool_calls)
    /\ Executed => last.tool_call.function.name # <<>>
    /\ (pc = "follow_up" \/ (last.op = "stream_openai_response" /\ last.request = "follow_up"))
           => \E i \in 1..Len(conversation_history) : conversation_history[i].role = "tool"

C15_Witness ==
    /\ PrimaryEnded
    /\ Len(last.tool_calls) = 2
    /\ last.tool_calls[1].function.name = <<>>
    /\ pc = "executing"
    /\ Len(batch) = 1

\* C16: the follow-up request is the last of its input: when it has returned, with success
\* or not, the loop is back at the prompt with no tool call left to execute; a successful
\* follow-up appends exactly one turn, an assistant turn without tool calls, whatever
\* tool-call fragments its stream carried, and touches no file.
C16_FollowUpEndsTheLoop ==
    /\ [](last.op = "stream_openai_response" /\ last.request = "follow_up"
            => pc = "prompt" /\ batch = <<>>)
    /\ [][FollowUp(ToolSession) =>
              /\ Len(conversation_history') = Len(conversation_history) + 1
              /\ SubSeq(conversation_history', 1, Len(conversation_history))
                     = conversation_history
              /\ conversation_history'[Len(conversation_history')].role = "assistant"
              /\ "tool_calls" \notin DOMAIN conversation_history'[Len(conversation_history')]
              /\ fs' = fs
              /\ last'.ret = "success"]_vars

C16_Witness ==
    /\ Returned("success")
    /\ last.request = "follow_up"
    /\ LastTurn.role = "assistant"
    /\ LastTurn.content = PlainText(<<"d">>)
    /\ \E k \in 1..Len(ToolSession.follow_ups) :
           \E c \in 1..Len(ToolSession.follow_ups[k]) :
               ToolSession.follow_ups[k][c].tool_calls # <<>>

\* the i-th result of read_multiple_files is the outcome of its i-th path
OutcomeOf(result, path_str) ==
    \/ result.kind = "file" /\ result.file = Resolve(path_str)
    \/ result.kind = "read_error" /\ result.path_str = path_str

\* C17: read_multiple_files returns one outcome per requested path, in request order,
\* whatever fails on a path; every path that names a readable file is read and its content
\* is in the result.
C17_BatchReadListsEveryPath ==
    ExecutedWith(READ_MULTIPLE_FILES, <<"file_paths">>) =>
        LET file_paths == Get(ExecutedArguments, "file_paths")
        IN /\ last.result.kind = "multi"
           /\ Len(last.result.results) = Len(file_paths)
           /\ \A i \in 1..Len(file_paths) :
                  /\ OutcomeOf(last.result.results[i], file_paths[i])
                  /\ (/\ Resolve(file_paths[i]) \in DOMAIN last.before
                      /\ "#" \notin Range(last.before[Resolve(file_paths[i])]))
                     => /\ last.result.results[i].kind = "file"
                        /\ last.result.results[i].text = last.before[Resolve(file_paths[i])]

\* the fields the dispatcher reads for a function
RequiredKeys(function_name) ==
    IF function_name = READ_FILE THEN <<"file_path">>
    ELSE IF function_name = READ_MULTIPLE_FILES THEN <<"file_paths">>
    ELSE IF function_name = CREATE_FILE THEN <<"file_path", "content">>
    ELSE IF function_name = CREATE_MULTIPLE_FILES THEN <<"files">>
    ELSE IF function_name = EDIT_FILE THEN <<"file_path", "original_snippet", "new_snippet">>
    ELSE <<>>

\* the argument text is no JSON object, or lacks a field its function reads
Malformed(tool_call) ==
    \/ Raised(JsonLoads(tool_call.function.arguments))
    \/ ~HasAll(JsonLoads(tool_call.function.arguments).val,
               RequiredKeys(tool_call.function.name))

\* C18: the dispatch of a tool call whose argument text is no JSON object or lacks a
\* required field returns an error text and touches no file; its tool turn is appended, the
\* loop goes on with the next request of the batch, and at the end of the batch, when the
\* follow-up request is issued, every request has its tool turn.
C18_MalformedArgumentsReported ==
    /\ (Executed /\ Malformed(last.tool_call)) =>
           /\ last.result.kind = "error"
           /\ last.result.exc \in {"JSONDecodeError", "KeyError"}
           /\ last.io = <<>> /\ fs = last.before
           /\ LastTurn = ToolTurn(last.tool_call.id, last.result)
           /\ pc = IF cursor <= Len(batch) THEN "executing" ELSE "follow_up"
    /\ (pc = "follow_up" /\ \E j \in 1..Len(batch) : Malformed(batch[j])) =>
           Len(AnsweredIds) = Len(batch)

C18_Witness ==
    /\ pc = "follow_up"
    /\ Len(batch) = 2
    /\ Raised(JsonLoads(batch[1].function.arguments))
    /\ ~Malformed(batch[2])
    /\ Executed /\ last.result.kind # "error"

KnownFunctions == {READ_FILE, READ_MULTIPLE_FILES, CREATE_FILE, CREATE_MULTIPLE_FILES, EDIT_FILE}

ExecutedUnknown == Executed /\ last.tool_call.function.name \notin KnownFunctions

\* the dispatch answered "Unknown function", touched no file, and the loop goes on
UnknownFunctionReported ==
    /\ last.result = [kind |-> "unknown_function", name |-> last.tool_call.function.name]
    /\ last.io = <<>> /\ fs = last.before
    /\ LastTurn = ToolTurn(last.tool_call.id, last.result)
    /\ pc = IF cursor <= Len(batch) THEN "executing" ELSE "follow_up"

\* C19 as stated: a tool call whose function name is none of the five the dispatcher knows is
\* answered with the unknown-function text, touches no file, and its tool turn is appended
\* while the batch and the follow-up proceed.
C19_UnknownFunctionReported ==
    ExecutedUnknown => UnknownFunctionReported

\* C19 as amended: a tool call whose function name is none of the five the dispatcher
\* knows and whose argument text parses as a JSON object is answered with the
\* unknown-function text, touches no file, and its tool turn is appended while the batch
\* and the follow-up proceed.
C19_UnknownFunctionWithArgumentsReported ==
    (ExecutedUnknown /\ ~Raised(JsonLoads(last.tool_call.function.arguments)))
        => UnknownFunctionReported

C19_Witness ==
    /\ ExecutedUnknown
    /\ ~Raised(JsonLoads(last.tool_call.function.arguments))
    /\ last.result.kind = "unknown_function"
    /\ pc = "executing"
    /\ Len(batch) = 2

(***************************************************************************)
(* The length of the text a content stands for.                            *)
(***************************************************************************)
\* the characters of a path component
PartLen(part) == IF part \in {"..", "~u"} THEN 2 ELSE 1

RECURSIVE PartsLen(_)
PartsLen(parts) == IF parts = <<>> THEN 0 ELSE PartLen(Head(parts)) + PartsLen(Tail(parts))

\* a path string as given: its components and the separators between them
PathStrLen(path_str) ==
    (IF path_str.abs THEN 1 ELSE 0) + PartsLen(path_str.parts)
    + (IF Len(path_str.parts) > 1 THEN Len(path_str.parts) - 1 ELSE 0)

\* a canonical path: a separator before each component
CanonicalLen(path) == IF path = <<>> THEN 1 ELSE PartsLen(path) + Len(path)

RECURSIVE NameLen(_)
NameLen(function_name) ==
    IF function_name = <<>> THEN 0
    ELSE (IF Head(function_name) \in {"read_", "edit_"} THEN 5
          ELSE IF Head(function_name) \in {"file", "run_"} THEN 4
          ELSE IF Head(function_name) \in {"files", "shell"} THEN 5
          ELSE IF Head(function_name) = "create_" THEN 7
          ELSE 9)
         + NameLen(Tail(function_name))

\* f"Content of file '{normalized_path}':\n\n{content}"
FileTextLen(content) == 17 + CanonicalLen(content.file) + 4 + PyLen(content.text)

\* one entry of the results of read_multiple_files
EntryLen(result) ==
    IF result.kind = "file" THEN FileTextLen(result)
    ELSE 15 + PathStrLen(result.path_str) + 3

\* "\n\n".join(results)
RECURSIVE EntriesLen(_)
EntriesLen(results) ==
    IF results = <<>> THEN 0
    ELSE EntryLen(Head(results)) + (IF Len(results) > 1 THEN 2 ELSE 0)
         + EntriesLen(Tail(results))

\* ', '.join(created_files)
RECURSIVE PathsLen(_)
PathsLen(paths) ==
    IF paths = <<>> THEN 0
    ELSE PathStrLen(Head(paths)) + (IF Len(paths) > 1 THEN 2 ELSE 0) + PathsLen(Tail(paths))

\* len of the text of a turn's content; None has none
ContentLen(content) ==
    IF content.kind = "text" THEN PyLen(content.text)
    ELSE IF content.kind = "file" THEN FileTextLen(content)
    ELSE IF content.kind = "multi" THEN 2 + 50 + EntriesLen(content.results)
    ELSE IF content.kind = "created" THEN 27 + PathStrLen(content.path_str) + 1
    ELSE IF content.kind = "created_many"
    THEN 21 + 1 + 8 + PathsLen(content.paths)
    ELSE IF content.kind = "edited" THEN 26 + PathStrLen(content.path_str) + 1
    ELSE IF content.kind = "edit_unreadable" THEN 28 + PathStrLen(content.path_str) + 13
    ELSE IF content.kind = "unknown_function" THEN 18 + NameLen(content.name)
    ELSE IF content.kind = "error" THEN 16 + NameLen(content.name) + 2
    ELSE IF content.kind = "prompt" THEN 1
    ELSE 0

\* C20: every dispatch returns a text that is not empty, and so the content of every
\* tool-role turn of the conversation is a text that is not empty.
C20_ResultTextNotEmpty ==
    /\ Executed => (last.result.kind # "None" /\ ContentLen(last.result) > 0)
    /\ \A i \in 1..Len(conversation_history) :
           conversation_history[i].role = "tool" =>
               /\ conversation_history[i].content.kind # "None"
               /\ ContentLen(conversation_history[i].content) > 0

C20_Witness ==
    /\ Executed
    /\ last.tool_call.function.name = READ_FILE
    /\ last.result.kind = "file"
    /\ last.result.text = <<>>
    /\ LastTurn.role = "tool"

(***************************************************************************)
(* Properties of the turns of a batch.                                     *)
(***************************************************************************)
\* C25: every assistant turn that carries tool calls has content None or an empty text.
C25_ToolCallTurnHasNoContent ==
    \A i \in 1..Len(conversation_history) :
        "tool_calls" \in DOMAIN conversation_history[i] =>
            \/ conversation_history[i].content.kind = "None"
            \/ /\ conversation_history[i].content.kind = "text"
               /\ conversation_history[i].content.text = <<>>

\* the index of the first entry create_file refuses
FirstRejected(infos) ==
    CHOOSE r \in 1..Len(infos) :
        /\ EntryRejected(infos[r])
        /\ \A j \in 1..(r - 1) : ~EntryRejected(infos[j])

\* C28: when create_multiple_files fails at its i-th entry, the files of the entries before
\* it hold the content that was written for them.
C28_EarlierWritesAreKept ==
    ExecutedWith(CREATE_MULTIPLE_FILES, <<"files">>) =>
        LET infos == Get(ExecutedArguments, "files")
        IN (\E r \in 1..Len(infos) : EntryRejected(infos[r])) =>
               \A j \in 1..(FirstRejected(infos) - 1) :
                   /\ Resolve(infos[j].path) \in DOMAIN fs
                   /\ fs[Resolve(infos[j].path)] = infos[j].content

C28_Witness ==
    /\ ExecutedWith(CREATE_MULTIPLE_FILES, <<"files">>)
    /\ last.result.kind = "error"
    /\ FirstRejected(Get(ExecutedArguments, "files")) = 2
    /\ <<"w", "d">> \notin DOMAIN last.before
    /\ <<"w", "d">> \in DOMAIN fs

\* C30: from the assistant turn that carries the tool calls of the batch to the last turn
\* of the conversation, while the batch is executed and when the follow-up is about to be
\* issued, every turn is a tool-role turn.
C30_ToolTurnsAreContiguous ==
    pc \in {"executing", "follow_up"} =>
        \A i \in (RequestingTurn + 1)..Len(conversation_history) :
            conversation_history[i].role = "tool"

(***************************************************************************)
(* trim_conversation_history alone.  The conversation grows one turn at a  *)
(* time; every turn has a text of its own length, so that a turn is known  *)
(* by its content.  The function looks at nothing but whether the role is  *)
(* "system", so the turns added are system turns and user turns.           *)
(***************************************************************************)
MaxTurns == 22
MaxSystem == 3

Unary(n) == [j \in 1..n |-> "x"]

InitTrimming ==
    /\ InitSession
    /\ fs = <<>>
    /\ last = [op |-> "start"]

AppendTurn ==
    /\ n_inputs < MaxTurns
    /\ \E role \in {"system", "user"} :
           /\ role = "system" => n_adds < MaxSystem
           /\ conversation_history' =
                  Append(conversation_history,
                         [role |-> role, content |-> PlainText(Unary(n_inputs + 1))])
           /\ n_adds' = IF role = "system" THEN n_adds + 1 ELSE n_adds
    /\ n_inputs' = n_inputs + 1
    /\ last' = [op |-> "append"]
    /\ UNCHANGED <<fs, pc, batch, cursor, n_failures, n_calls>>

CallTrim ==
    /\ last.op # "trim_conversation_history"
    /\ conversation_history' = trim_conversation_history(conversation_history)
    /\ last' = [op |-> "trim_conversation_history", history |-> conversation_history]
    /\ UNCHANGED <<fs, pc, batch, cursor, n_inputs, n_adds, n_failures, n_calls>>

NextTrimming == AppendTurn \/ CallTrim

SpecTrimming == InitTrimming /\ [][NextTrimming]_vars

Trimmed == last.op = "trim_conversation_history"

\* the place a turn of the trimmed conversation had before the trim
PlaceBefore(i) ==
    CHOOSE p \in 1..Len(last.history) : last.history[p] = conversation_history[i]

\* the places of the turns that the trim retained
Retained ==
    {p \in 1..Len(last.history) :
        \E i \in 1..Len(conversation_history) : conversation_history[i] = last.history[p]}

SystemPlaces == {p \in 1..Len(last.history) : last.history[p].role = "system"}
OtherPlaces == {p \in 1..Len(last.history) : last.history[p].role # "system"}

\* the most recent KeepRecent of the turns that are not system turns
RecentPlaces == {p \in OtherPlaces : Cardinality({q \in OtherPlaces : q > p}) < KeepRecent}

\* turns of the same kind (system, or not system) stand in the order they had before
SameKindInOrder ==
    \A i, j \in 1..Len(conversation_history) :
        /\ i < j
        /\ (conversation_history[i].role = "system") = (conversation_history[j].role = "system")
        => PlaceBefore(i) < PlaceBefore(j)

\* C22: a trim of more than 20 turns retains every system turn, unmodified and in the
\* order the system turns had, and exactly the most recent 15 turns that are not system
\* turns (all of them when there are at most 15); nothing else is retained or added.
C22_TrimKeepsSystemAndRecent ==
    (Trimmed /\ Len(last.history) > TrimThreshold) =>
        /\ \A i \in 1..Len(conversation_history) :
               \E p \in 1..Len(last.history) : last.history[p] = conversation_history[i]
        /\ Len(conversation_history) = Cardinality(Retained)
        /\ Retained = SystemPlaces \cup RecentPlaces
        /\ SameKindInOrder

C22_Witness ==
    /\ Trimmed
    /\ Len(last.history) > TrimThreshold
    /\ Cardinality(SystemPlaces) = 3
    /\ Cardinality(OtherPlaces) > KeepRecent
    /\ Len(conversation_history) = KeepRecent + 3

\* C23: a trim of a conversation of at most 20 turns leaves it as it was.
C23_ShortConversationUntouched ==
    (Trimmed /\ Len(last.history) <= TrimThreshold) =>
        conversation_history = last.history

C23_Witness ==
    /\ Trimmed
    /\ Len(last.history) = TrimThreshold
    /\ Cardinality(OtherPlaces) > KeepRecent
    /\ last.history[TrimThreshold].role = "system"

\* C24: a trim keeps the retained turns in the relative order they had before it: no
\* retained turn moves relative to another, a system turn that was appended after turns
\* of other roles included.
C24_TrimKeepsRelativeOrder ==
    Trimmed =>
        \A i, j \in 1..Len(conversation_history) :
            i < j => PlaceBefore(i) < PlaceBefore(j)

(***************************************************************************)
(* The assembly of the primary stream alone.  Init draws a stream of at    *)
(* most MaxChunks chunks from a pool; the one action runs the loop over    *)
(* the stream and the formatting of the assembled tool calls.  The service *)
(* gives different ids to different indices; some fragments have no id.    *)
(***************************************************************************)
MaxChunks == 3

ChunkPool ==
    << Chunk(<<"r">>, <<>>, <<>>),
       Chunk(<<>>, <<"o", "k">>, <<>>),
       Chunk(<<>>, <<>>, <<Delta(0, ServiceId(1, 0), <<"read_">>, <<Open>>)>>),
       Chunk(<<>>, <<>>, <<Delta(0, <<>>, <<"file">>,
                                 <<Member("file_path", Rel(<<"a">>)), Close>>)>>),
       Chunk(<<>>, <<>>, <<Delta(1, ServiceId(1, 1), <<"edit_", "file">>, <<Open, Close>>)>>),
       Chunk(<<>>, <<>>, <<Delta(0, <<>>, <<"read_">>, <<>>),
                           Delta(2, <<>>, <<"file">>, <<Open>>)>>),
       Chunk(<<>>, <<"o", "k">>, <<Delta(0, <<>>, <<"file">>, <<Close>>)>>) >>

InitAssembly ==
    /\ InitSession
    /\ fs = <<>>
    /\ \E plan \in SeqsUpTo(1..Len(ChunkPool), MaxChunks) :
           last = [op |-> "stream", stream |-> [j \in 1..Len(plan) |-> ChunkPool[plan[j]]]]

ConsumeStream ==
    /\ last.op = "stream"
    /\ LET got == Consume(last.stream, <<>>, <<>>)
       IN last' = [op |-> "consume", stream |-> last.stream,
                   final_content |-> got.final_content,
                   tool_calls |-> got.tool_calls,
                   formatted_tool_calls |-> Format(got.tool_calls, 1, Now)]
    /\ UNCHANGED <<fs, conversation_history, pc, batch, cursor, n_inputs, n_adds,
                   n_failures, n_calls>>

NextAssembly == ConsumeStream

SpecAssembly == InitAssembly /\ [][NextAssembly]_vars

\* every tool-call fragment of a stream, in arrival order
RECURSIVE Fragments(_)
Fragments(stream) ==
    IF stream = <<>> THEN <<>> ELSE Head(stream).tool_calls \o Fragments(Tail(stream))

\* the name pieces and the argument tokens sent to one index, in arrival order
RECURSIVE NameSent(_, _)
NameSent(fragments, index) ==
    IF fragments = <<>> THEN <<>>
    ELSE (IF Head(fragments).index = index THEN Head(fragments).name ELSE <<>>)
         \o NameSent(Tail(fragments), index)

RECURSIVE ArgumentsSent(_, _)
ArgumentsSent(fragments, index) ==
    IF fragments = <<>> THEN <<>>
    ELSE (IF Head(fragments).index = index THEN Head(fragments).arguments ELSE <<>>)
         \o ArgumentsSent(Tail(fragments), index)

Consumed == last.op = "consume"

\* C26: when the stream has ended, the name and the argument text assembled for each
\* index are the concatenation, in arrival order, of all the fragments the stream
\* addressed to that index, whatever else the stream carried in between.
C26_AssembledIsConcatenation ==
    Consumed =>
        LET fragments == Fragments(last.stream)
        IN \A k \in 1..Len(fragments) :
               LET index == fragments[k].index
               IN /\ Len(last.tool_calls) > index
                  /\ last.tool_calls[index + 1].function.name = NameSent(fragments, index)
                  /\ last.tool_calls[index + 1].function.arguments
                         = ArgumentsSent(fragments, index)

\* C27: the ids of the tool calls of an assistant turn are not empty and differ pairwise,
\* those made locally for a tool call without an id included.
C27_IdsDistinct ==
    Consumed =>
        \A k, l \in 1..Len(last.formatted_tool_calls) :
            /\ last.formatted_tool_calls[k].id # <<>>
            /\ k # l => last.formatted_tool_calls[k].id # last.formatted_tool_calls[l].id

C27_Witness ==
    /\ Consumed
    /\ Len(last.formatted_tool_calls) = 3
    /\ last.formatted_tool_calls[1].id[1] = "call"
    /\ last.formatted_tool_calls[2].id[1] = "svc"
    /\ last.formatted_tool_calls[3].id[1] = "call"

(***************************************************************************)
(* The loop of main.  An input line is a sequence of tokens: " " is white  *)
(* space, "/" separates the components of a path, every other token is a   *)
(* word.  The line is stripped, then tested in the order of the code:      *)
(* empty, exit or quit, the /add prefix, and a message for the model       *)
(* otherwise.                                                              *)
(***************************************************************************)
RECURSIVE LStrip(_)
LStrip(line) ==
    IF line # <<>> /\ Head(line) = " " THEN LStrip(Tail(line)) ELSE line

RECURSIVE RStrip(_)
RStrip(line) ==
    IF line # <<>> /\ line[Len(line)] = " " THEN RStrip(SubSeq(line, 1, Len(line) - 1))
    ELSE line

Strip(line) == RStrip(LStrip(line))

LowerToken(token) ==
    IF token = "/ADD" THEN "/add"
    ELSE IF token = "EXIT" THEN "exit"
    ELSE IF token = "QUIT" THEN "quit"
    ELSE token

Lower(line) == [j \in 1..Len(line) |-> LowerToken(line[j])]

\* user_input.lower() in ["exit", "quit"]
IsExit(user_input) == Lower(user_input) \in {<<"exit">>, <<"quit">>}

\* user_input.strip().lower().startswith("/add ")
StartsWithAddPrefix(user_input) ==
    LET lowered == Lower(Strip(user_input))
    IN Len(lowered) >= 2 /\ lowered[1] = "/add" /\ lowered[2] = " "

IsPathToken(token) == token # "/"

\* user_input[len(prefix):].strip(), as a path string
PathToAdd(user_input) ==
    Rel(SelectSeq(Strip(SubSeq(user_input, 3, Len(user_input))), IsPathToken))

AddingOf(cfg, user_input) == [cfg EXCEPT !.add_paths = <<PathToAdd(user_input)>>]
SendingOf(cfg, user_input) == [cfg EXCEPT !.texts = <<PlainText(user_input)>>]

\* an empty line: continue
MainBlankLine(cfg, line) ==
    /\ pc = "prompt"
    /\ Strip(line) = <<>>
    /\ last' = [op |-> "main", line |-> line, branch |-> "continue"]
    /\ UNCHANGED <<fs, conversation_history, pc, batch, cursor, n_inputs, n_adds,
                   n_failures, n_calls>>

\* exit or quit: break
MainExitLine(cfg, line) ==
    /\ pc = "prompt"
    /\ Strip(line) # <<>>
    /\ IsExit(Strip(line))
    /\ pc' = "finished"
    /\ last' = [op |-> "main", line |-> line, branch |-> "break"]
    /\ UNCHANGED <<fs, conversation_history, batch, cursor, n_inputs, n_adds,
                   n_failures, n_calls>>

\* a loop that hands an /add line to the model after it was handled as a message
MainAddLineSending(cfg, line) ==
    /\ Strip(line) # <<>>
    /\ ~IsExit(Strip(line))
    /\ StartsWithAddPrefix(Strip(line))
    /\ Primary(SendingOf(cfg, Strip(line)))

\* try_handle_add_command returns True: continue
MainAddLine(cfg, line) ==
    /\ Strip(line) # <<>>
    /\ ~IsExit(Strip(line))
    /\ StartsWithAddPrefix(Strip(line))
    /\ AddCommand(AddingOf(cfg, Strip(line)))

\* stream_openai_response(user_input)
MainMessageLine(cfg, line) ==
    /\ Strip(line) # <<>>
    /\ ~IsExit(Strip(line))
    /\ ~StartsWithAddPrefix(Strip(line))
    /\ Primary(SendingOf(cfg, Strip(line)))

MainMessageFailsLine(cfg, line) ==
    /\ Strip(line) # <<>>
    /\ ~IsExit(Strip(line))
    /\ ~StartsWithAddPrefix(Strip(line))
    /\ PrimaryFails(SendingOf(cfg, Strip(line)))

MainBlank(cfg) == \E i \in 1..Len(cfg.lines) : MainBlankLine(cfg, cfg.lines[i])
MainExit(cfg) == \E i \in 1..Len(cfg.lines) : MainExitLine(cfg, cfg.lines[i])
MainAdd(cfg) == \E i \in 1..Len(cfg.lines) : MainAddLine(cfg, cfg.lines[i])
MainMessage(cfg) == \E i \in 1..Len(cfg.lines) : MainMessageLine(cfg, cfg.lines[i])
MainMessageFails(cfg) == \E i \in 1..Len(cfg.lines) : MainMessageFailsLine(cfg, cfg.lines[i])

Lines ==
    << <<" ">>,
       <<"exit">>,
       <<" ", "QUIT", " ">>,
       <<"exit", " ", "now">>,
       <<"/add", " ", "a">>,
       <<" ", "/ADD", " ", " ", "z">>,
       <<"/add", " ", "u">>,
       <<"/add", " ", ".">>,
       <<"/add", " ", "n">>,
       <<"/add">>,
       <<"h", "i">> >>

MainSession ==
    [lines |-> Lines,
     texts |-> <<>>,
     streams |-> Streams(<<ReadFile(Rel(<<"a">>))>>, ToolInputs, 1),
     follow_ups |-> FollowUps,
     add_paths |-> <<>>,
     max_inputs |-> ToolInputs,
     max_calls |-> MaxCalls,
     max_adds |-> LongAdds,
     max_failures |-> MaxFailures]

InitMain ==
    /\ InitSession
    /\ fs = ToolFiles
    /\ last = [op |-> "start"]

NextMain ==
    \/ MainBlank(MainSession)
    \/ MainExit(MainSession)
    \/ MainAdd(MainSession)
    \/ MainMessage(MainSession)
    \/ MainMessageFails(MainSession)
    \/ ExecuteToolCall
    \/ FollowUpFails(MainSession)
    \/ FollowUp(MainSession)

SpecMain == InitMain /\ [][NextMain]_vars

\* the step main takes on one line
MainStep(cfg, line) ==
    \/ MainBlankLine(cfg, line)
    \/ MainExitLine(cfg, line)
    \/ MainAddLine(cfg, line)
    \/ MainMessageLine(cfg, line)
    \/ MainMessageFailsLine(cfg, line)

\* what the line reads, white space at its ends aside
Words(line) == SelectSeq(line, LAMBDA token : token # " ")
AddForm(line) == Len(Words(line)) >= 2 /\ Words(line)[1] = "/add" /\ Strip(line)[2] = " "
ExitForm(line) == Words(line) \in {<<"exit">>, <<"quit">>}
Blank(line) == Words(line) = <<>>

\* the turns the step appended
Appended ==
    SubSeq(conversation_history', Len(conversation_history) + 1, Len(conversation_history'))

NoUserTurnAppended ==
    /\ Len(conversation_history') >= Len(conversation_history)
    /\ SubSeq(conversation_history', 1, Len(conversation_history)) = conversation_history
    /\ \A i \in 1..Len(Appended) : Appended[i].role # "user"

NoModelRequest ==
    /\ n_inputs' = n_inputs
    /\ n_failures' = n_failures
    /\ last'.op # "stream_openai_response"
    /\ pc' \in {"prompt", "crashed"}

\* the conversation is the old one with one user turn of the line's text, trimmed, and
\* after it turns of other roles only
OneUserTurnAppended(line) ==
    LET sent == trim_conversation_history(
                    Append(conversation_history, UserTurn(PlainText(Strip(line)))))
    IN /\ Len(conversation_history') >= Len(sent)
       /\ SubSeq(conversation_history', 1, Len(sent)) = sent
       /\ \A i \in (Len(sent) + 1)..Len(conversation_history') :
              conversation_history'[i].role # "user"

PrimaryRequestIssued ==
    /\ n_inputs' = n_inputs + 1
    /\ last'.op = "stream_openai_response"
    /\ last'.request = "primary"

\* what C21 says of a step on a line, given which command the line is taken to be
Dispatched21(line, is_add, is_exit) ==
    /\ is_add => NoUserTurnAppended /\ NoModelRequest
    /\ is_exit =>
           /\ pc' = "finished"
           /\ conversation_history' = conversation_history
    /\ (~Blank(line) /\ ~is_add /\ ~is_exit) =>
           OneUserTurnAppended(line) /\ PrimaryRequestIssued

\* C21 as stated: a step of the loop on an '/add <path>' line appends no user turn and
\* issues no model request; on 'exit' or 'quit' it ends the session and leaves the
\* conversation as it is; on every other line that is not blank it appends exactly one
\* user turn and issues a primary model request.
C21_LineDispatch ==
    [][\A i \in 1..Len(Lines) :
           MainStep(MainSession, Lines[i]) =>
               Dispatched21(Lines[i], AddForm(Lines[i]), ExitForm(Lines[i]))]_vars

\* C21 as amended: the same, the commands '/add <path>', 'exit' and 'quit' being
\* recognised in any letter case.
C21_LineDispatchAnyCase ==
    [][\A i \in 1..Len(Lines) :
           MainStep(MainSession, Lines[i]) =>
               Dispatched21(Lines[i], AddForm(Lower(Lines[i])), ExitForm(Lower(Lines[i])))]_vars

C21_Witness ==
    /\ pc = "finished"
    /\ last.op = "main"
    /\ last.branch = "break"
    /\ \E i \in 1..Len(conversation_history) :
           /\ conversation_history[i].role = "system"
           /\ conversation_history[i].content.kind = "file"
    /\ \E i \in 1..Len(conversation_history) :
           /\ conversation_history[i].role = "user"
           /\ conversation_history[i].content = PlainText(<<"/add">>)

\* the file or directory an /add was given holds a file that is no text
AddedUndecodable ==
    /\ last.op = "try_handle_add_command"
    /\ \E q \in DOMAIN fs :
           /\ IsPrefix(Resolve(last.path), q)
           /\ "#" \in Range(fs[q])

\* C29: an /add of an existing file that cannot be decoded as text, alone or met in the
\* walk of a directory, is a failure of that operation only: the conversation gains no
\* turn for the file and the session goes on accepting input.
C29_UndecodableAddIsLocal ==
    AddedUndecodable =>
        /\ pc = "prompt"
        /\ \A i \in 1..Len(conversation_history) :
               conversation_history[i].content.kind = "file" =>
                   "#" \notin Range(conversation_history[i].content.text)

(***************************************************************************)
(* add_directory_to_conversation alone.  Init draws the files below /w, at *)
(* most MaxWalked of them, from a pool of names and contents that meet     *)
(* every exclusion rule, two rules at once, or none; the one action walks  *)
(* /w.                                                                     *)
(***************************************************************************)
MaxWalked == 3

WalkPool ==
    << [file |-> <<"w", "a">>, text |-> <<"x", "y">>],
       [file |-> <<"w", ".env">>, text |-> <<"x">>],
       [file |-> <<"w", "p.png">>, text |-> <<"x">>],
       [file |-> <<"w", ".x.png">>, text |-> <<"x">>],
       [file |-> <<"w", "m.log">>, text |-> <<"x">>],
       [file |-> <<"w", "a.min.js">>, text |-> <<"x">>],
       [file |-> <<"w", "g">>, text |-> <<"B", "B", "x">>],
       [file |-> <<"w", "b">>, text |-> <<"x", "0">>],
       [file |-> <<"w", "h">>, text |-> <<"B", "0">>],
       [file |-> <<"w", "k">>, text |-> <<"0", "B", "B">>],
       [file |-> <<"w", "s", "c">>, text |-> <<"y">>],
       [file |-> <<"w", "dist", "d">>, text |-> <<"y">>] >>

WalkFiles(chosen) ==
    [q \in {WalkPool[i].file : i \in chosen} |->
        WalkPool[CHOOSE i \in chosen : WalkPool[i].file = q].text]

InitWalk ==
    /\ InitSession
    /\ \E chosen \in SUBSET (1..Len(WalkPool)) :
           /\ Cardinality(chosen) <= MaxWalked
           /\ fs = WalkFiles(chosen)
    /\ last = [op |-> "start"]

CallAddDirectory ==
    /\ last.op = "start"
    /\ \E order \in WalkOrders(fs, Cwd) :
           LET walked == add_directory_to_conversation(fs, conversation_history, order)
           IN /\ conversation_history' = walked.history
              /\ last' = [op |-> "add_directory_to_conversation", exc |-> walked.exc,
                          added_files |-> walked.added_files,
                          skipped_files |-> walked.skipped_files]
    /\ UNCHANGED <<fs, pc, batch, cursor, n_inputs, n_adds, n_failures, n_calls>>

NextWalk == CallAddDirectory

SpecWalk == InitWalk /\ [][NextWalk]_vars

\* the exclusion rules a file violates: its name, its extension, its size, its content
RulesViolated(full_path) ==
    LET file == full_path[Len(full_path)]
    IN (IF StartsWithDot(file) \/ InExcludedFiles(file) THEN {"name"} ELSE {})
       \cup (IF HasExcludedEnding(file) THEN {"extension"} ELSE {})
       \cup (IF PyLen(fs[full_path]) > MaxFileSize THEN {"size"} ELSE {})
       \cup (IF is_binary_file(fs, full_path) THEN {"binary"} ELSE {})

Walked32 == last.op = "add_directory_to_conversation"

\* C32: after the ingestion of a directory, every file added to the conversation violates
\* none of the exclusion rules (name, extension, size, binary), and every file reported
\* as skipped violates exactly one of them.
C32_AddedNoneSkippedOne ==
    Walked32 =>
        /\ \A i \in 1..Len(last.added_files) : RulesViolated(last.added_files[i]) = {}
        /\ \A i \in 1..Len(last.skipped_files) :
               Cardinality(RulesViolated(last.skipped_files[i].file)) = 1

(***************************************************************************)
(* A session just long enough for the trim to remove turns: user inputs,   *)
(* read_file calls alone or twice in a batch, an /add and a failed         *)
(* request.                                                                *)
(***************************************************************************)
PreambleSession ==
    [texts |-> <<PlainText(<<"h", "i">>)>>,
     streams |-> Streams(<<ReadFile(Rel(<<"a">>))>>, PreambleInputs, 0),
     follow_ups |-> FollowUps,
     add_paths |-> <<Rel(<<"a">>)>>,
     max_inputs |-> PreambleInputs,
     max_calls |-> 2 * PreambleInputs,
     max_adds |-> LongAdds,
     max_failures |-> MaxFailures]

NextPreamble ==
    \/ PrimaryFails(PreambleSession)
    \/ Primary(PreambleSession)
    \/ ExecuteToolCall
    \/ FollowUpFails(PreambleSession)
    \/ FollowUp(PreambleSession)
    \/ AddCommand(PreambleSession)

SpecPreamble == Init /\ [][NextPreamble]_vars

\* C31: the first turn of the conversation is always the system turn the session began
\* with, as it was.
C31_PreambleStaysFirst ==
    /\ conversation_history # <<>>
    /\ conversation_history[1] = SystemTurn(SystemPrompt)

\* a request whose trim removed turns, in a session that has also had an /add, a tool
\* call and a failed request
C31_Witness ==
    /\ last.op = "stream_openai_response"
    /\ last.turns_before >= TrimThreshold
    /\ Len(conversation_history) < last.turns_before
    /\ n_adds > 0
    /\ n_calls > 0
    /\ n_failures > 0

====
